---- MODULE Spec2Model ----
(***************************************************************************)
(* Followers tracker: one run of run_followers_tracker (src/main.py).      *)
(* Seven collectors run one after the other, each calling the entry point  *)
(* of its service; the seven results are then mapped onto two forms and    *)
(* POSTed.  External systems (web pages, platform APIs, the form endpoint) *)
(* are the environment: every response they can give is an input drawn     *)
(* with \E.                                                                *)
(*                                                                         *)
(* Python values are encoded as integers: a count is a natural number, the *)
(* other values a metric can take are the negative sentinels below.        *)
(* A dict is a record holding exactly the keys the code puts in it, so     *)
(* that dict.get can tell a present key from an absent one.                *)
(***************************************************************************)
EXTENDS Integers, Sequences, FiniteSets, TLC

\* ------------------------------------------------------------------ bounds
\* at most this many services meet a non-nominal external outcome in one run
MaxFailingServices == 1
\* largest max_retries explored for YouTubeService.get_channel_stats
MaxYtRetries == 4
\* largest self.max_retries explored for InstagramService.get_followers
MaxIgRetries == 4
\* largest number of markup pieces in an enumerated page text
MaxSnippets == 4
\* form maps built from one set of acquisition results
MaxBuilds == 3

\* nesting depth of the sampled JSON bodies
MaxDepth == 3
\* entries of a sampled API body
MaxPairs == 2
\* responses intercepted during one page load
MaxResponses == 3

\* ------------------------------------------------------- program constants
NotFound == -1
None == -2
NotAvailable == -3
NonIntText == -4

PROFILE_MAX_ATTEMPTS == 5
TWITTER_COOLDOWN == 900
YT_DEFAULT_MAX_RETRIES == 3
INTER_COMPANY_DELAY == 2
INSTAGRAM_MAX_RETRIES == 10
base_wait_time == 120

\* config.settings: the credentials and identifiers read from the environment
Credentials == {"TWITTER_BEARER_TOKEN", "YT_API_KEY", "YT_CHANNEL_ID", "KIT_API_KEY"}

IsInteger(v) == v >= 0

CompanyNames ==
  <<"AI Finance Club", "Business Infographics", "Nicolas Boucher Online", "Excel Cheatsheets">>

KitRanges == <<"daily", "weekly", "monthly">>

Collectors ==
  <<"profile", "company", "newsletter", "twitter", "instagram", "youtube", "kit">>

\* ----------------------------------------------------------------- helpers
\* the counts the external systems report in this model, one per metric
SampleCount(target) ==
  CASE target = "profile" -> 11
    [] target = "AI Finance Club" -> 21
    [] target = "Business Infographics" -> 22
    [] target = "Nicolas Boucher Online" -> 23
    [] target = "Excel Cheatsheets" -> 24
    [] target = "newsletter" -> 31
    [] target = "twitter" -> 41
    [] target = "instagram" -> 51
    [] target = "youtube.subscribers" -> 61
    [] target = "youtube.views" -> 62
    [] target = "daily" -> 70
    [] target = "weekly" -> 80
    [] target = "monthly" -> 90
    [] OTHER -> 1

EmptyDict == [k \in {} |-> None]

\* dict.get(key) and dict.get(key, default)
GetOr(d, k, default) == IF k \in DOMAIN d THEN d[k] ELSE default

Get(d, k) == GetOr(d, k, None)

Pow2(n) == 2 ^ n

\* parsed JSON: null, a scalar, an object (its key/value pairs in declaration
\* order) or an array
JNull == [tag |-> "null"]

JScalar(v) == [tag |-> "scalar", value |-> v]

JPair(k, v) == [key |-> k, value |-> v]

JObject(pairs) == [tag |-> "object", items |-> pairs]

JArray(elems) == [tag |-> "array", items |-> elems]

\* `context` is not among the locals of get_followers
NoContext == 0

Pending == [kind |-> "pending"]

Returned(v) == [kind |-> "return", value |-> v]

Raised(e) == [kind |-> "raise", error |-> e]

Request == [ev |-> "request", secs |-> 0]

RateLimitSignal == [ev |-> "rate_limit", secs |-> 0]

Wait(n) == [ev |-> "wait", secs |-> n]

Scrape == [ev |-> "scrape", secs |-> 0]

Navigate == [ev |-> "navigate", secs |-> 0]

Extract == [ev |-> "extract", secs |-> 0]

Close == [ev |-> "close", secs |-> 0]

VARIABLES
  pc,                       \* the collector or submission run_followers_tracker is at
  phase,                    \* "call": about to call it, "run": inside the service, "exit": the service has returned or raised
  calls,                    \* collectors invoked so far, in order
  failing,                  \* services that met a non-nominal external outcome
  ret,                      \* what the running service entry point returned or raised
  trace,                    \* requests, rate-limit signals and waits of the running service call
  last,                     \* the external outcome met by the latest step of the running service call
  linkedin_profile_data,
  linkedin_company_data,
  linkedin_newsletter_data,
  twitter_data,
  instagram_data,
  youtube_data,
  kit_data,
  attempt,                  \* LinkedInProfileAdvancedService.get_followers: attempt
  url_to_try,               \* LinkedInProfileAdvancedService.get_followers: url_to_try
  results,                  \* LinkedInCompanyService.get_all_company_data: results
  retry_on_failure,         \* TwitterService.get_followers: retry_on_failure
  step,                     \* InstagramService.get_followers: the next step ("api", "scrape", "api_retry")
  retry_count,              \* InstagramService.get_followers: retry_count
  retries,                  \* YouTubeService.get_channel_stats: retries
  max_retries,              \* YouTubeService.get_channel_stats: max_retries
  kit_stats,                \* KitService.get_all_stats: the pulls done so far (daily_stats, weekly_stats, monthly_stats)
  form_data,                \* FollowersSubmitter: the form map built by the running submit_* method
  body,                     \* GoogleFormsSubmitter.submit_data: form_data, the POST body
  form_retries,             \* GoogleFormsSubmitter.submit_data: retries
  followers_success,        \* main.submit_data: followers_success
  submission_success,       \* run_followers_tracker: the value returned
  posted,                   \* the form of every POST issued so far, in order
  maps,                     \* FollowersSubmitter: the form maps built so far, in order
  sent,                     \* GoogleFormsSubmitter.submit_data: the data of every requests.post of the running call
  instagram_max_retries,    \* InstagramService: self.max_retries
  credentials,              \* the credentials and identifiers set in the environment (config.settings)
  open_resources,           \* browser resources opened by a scraping call and not released
  page_content,             \* the page text handed to the markup extractors
  context,                  \* get_followers: the local `context`, by the attempt that bound it
  session_log,              \* browser contexts created and close calls made, in order
  graphql_data,             \* _get_followers_from_scraping: graphql_data["follower_count"]
  responses,                \* the responses handle_response has been called with, in order
  response_json,            \* the parsed JSON body handed to the JSON lookups
  extracted                 \* what each markup extractor returned or raised for page_content

vars ==
  << pc, phase, calls, failing, ret, trace, last,
     linkedin_profile_data, linkedin_company_data, linkedin_newsletter_data,
     twitter_data, instagram_data, youtube_data, kit_data,
     attempt, url_to_try, results, retry_on_failure, step, retry_count, retries, max_retries,
     kit_stats, form_data, body, form_retries, followers_success, submission_success, posted, sent, maps,
     instagram_max_retries, credentials, open_resources, page_content, extracted, response_json,
     context, session_log, graphql_data, responses >>

cfgVars == << instagram_max_retries, credentials >>

extractVars == << page_content, extracted, response_json, context, session_log,
                 graphql_data, responses >>

submitVars ==
  << form_data, body, form_retries, followers_success, submission_success, posted, sent, maps >>

svcVars ==
  << attempt, url_to_try, results, retry_on_failure, step, retry_count, retries, max_retries, kit_stats >>

dataVars ==
  << linkedin_profile_data, linkedin_company_data, linkedin_newsletter_data,
     twitter_data, instagram_data, youtube_data, kit_data >>

Unset == [unset |-> TRUE]

\* an external outcome other than the nominal one is allowed while the budget lasts
Allowed(svc, nominal) ==
  nominal \/ svc \in failing \/ Cardinality(failing) < MaxFailingServices

Note(svc, nominal) == IF nominal THEN failing ELSE failing \cup {svc}

Init ==
  /\ pc = "profile"
  /\ phase = "call"
  /\ calls = <<>>
  /\ failing = {}
  /\ ret = Pending
  /\ trace = <<>>
  /\ last = "none"
  /\ linkedin_profile_data = Unset
  /\ linkedin_company_data = Unset
  /\ linkedin_newsletter_data = Unset
  /\ twitter_data = Unset
  /\ instagram_data = Unset
  /\ youtube_data = Unset
  /\ kit_data = Unset
  /\ attempt = 0
  /\ url_to_try = ""
  /\ results = <<>>
  /\ retry_on_failure = TRUE
  /\ step = "api"
  /\ retry_count = 0
  /\ retries = 0
  /\ max_retries = YT_DEFAULT_MAX_RETRIES
  /\ kit_stats = <<>>
  /\ form_data = EmptyDict
  /\ body = EmptyDict
  /\ form_retries = 0
  /\ followers_success = FALSE
  /\ submission_success = FALSE
  /\ posted = <<>>
  /\ sent = <<>>
  /\ maps = <<>>
  /\ instagram_max_retries = INSTAGRAM_MAX_RETRIES
  /\ credentials = Credentials
  /\ open_resources = {}
  /\ page_content = <<>>
  /\ extracted = EmptyDict
  /\ response_json = JNull
  /\ context = NoContext
  /\ session_log = <<>>
  /\ graphql_data = JNull
  /\ responses = <<>>

\* the description of an unexpected exception raised while a service is constructed
ConstructionError == "unexpected exception at construction"

\* ------------------------------------------------ collector call and return
\* the try block of a collect_* function up to the service call: the service is
\* constructed (an unexpected exception there is caught by the collector)
CallService(name, unexpected) ==
  /\ pc = name
  /\ phase = "call"
  /\ Allowed(name, ~unexpected)
  /\ failing' = Note(name, ~unexpected)
  /\ pc' = pc
  /\ calls' = Append(calls, name)
  /\ trace' = <<>>
  /\ last' = "none"
  /\ IF unexpected
       THEN phase' = "exit" /\ ret' = Raised(ConstructionError)
       ELSE phase' = "run" /\ ret' = Pending

\* NextCollector with the newsletter and Twitter collectors exchanged
NextCollectorSwapped(name) ==
  CASE name = "profile" -> "company"
    [] name = "company" -> "twitter"
    [] name = "twitter" -> "newsletter"
    [] name = "newsletter" -> "instagram"
    [] name = "instagram" -> "youtube"
    [] name = "youtube" -> "kit"
    [] name = "kit" -> "submit_followers"

NextCollector(name) ==
  CASE name = "profile" -> "company"
    [] name = "company" -> "newsletter"
    [] name = "newsletter" -> "twitter"
    [] name = "twitter" -> "instagram"
    [] name = "instagram" -> "youtube"
    [] name = "youtube" -> "kit"
    [] name = "kit" -> "submit_followers"

\* the except branch of each collect_* function: the placeholder it returns
ProfilePlaceholder(e) == [followers |-> NotFound, error |-> e]

\* CompanyPlaceholder with the last company left out
CompanyPlaceholderThree(e) ==
  [i \in 1..3 |-> [name |-> CompanyNames[i], followers |-> NotFound, error |-> e]]

CompanyPlaceholder(e) ==
  [i \in 1..4 |-> [name |-> CompanyNames[i], followers |-> NotFound, error |-> e]]

NewsletterPlaceholder(e) == [subscribers |-> NotFound, error |-> e]

TwitterPlaceholder(e) == [followers |-> NotFound, error |-> e]

InstagramPlaceholder(e) == [followers |-> NotFound, error |-> e]

YouTubePlaceholder(e) == [subscribers |-> NotFound, views |-> NotFound, error |-> e]

KitPlaceholder(e) ==
  [r \in {"daily", "weekly", "monthly"} |->
     [time_range |-> r, subscribers |-> NotFound, error |-> e]]

\* the placeholder of the collector of the given name
PlaceholderOf(name, e) ==
  CASE name = "profile" -> ProfilePlaceholder(e)
    [] name = "company" -> CompanyPlaceholder(e)
    [] name = "newsletter" -> NewsletterPlaceholder(e)
    [] name = "twitter" -> TwitterPlaceholder(e)
    [] name = "instagram" -> InstagramPlaceholder(e)
    [] name = "youtube" -> YouTubePlaceholder(e)
    [] name = "kit" -> KitPlaceholder(e)

\* what a collect_* function hands back to run_followers_tracker: the value the
\* service returned, or the placeholder when the service raised
Collected(name) ==
  IF ret.kind = "return" THEN ret.value ELSE PlaceholderOf(name, ret.error)

\* the rest of a collect_* function once the service call is over
ReturnFromCollector(name) ==
  /\ pc = name
  /\ phase = "exit"
  /\ pc' = NextCollector(name)
  /\ phase' = "call"
  /\ ret' = Pending
  /\ trace' = <<>>
  /\ last' = "none"
  /\ UNCHANGED <<calls, failing>>

\* the credentials and identifiers the requests of an API service carry
RequiredCredentials(svc) ==
  CASE svc = "twitter" -> {"TWITTER_BEARER_TOKEN"}
    [] svc = "youtube" -> {"YT_API_KEY", "YT_CHANNEL_ID"}
    [] svc = "kit" -> {"KIT_API_KEY"}

Authorized(svc) == RequiredCredentials(svc) \subseteq credentials

\* what a request without valid credentials can meet: a rejection or a transport failure
UnauthenticatedResponses == {"http_error", "rate_limit", "network_error", "unexpected"}

\* -------------------------------------------------------- browser sessions
\* how PlaywrightDriver.close / close_resources end for the session of a scraping call
CloseOutcomes == {"closed", "context_close_raises", "browser_close_raises"}

\* PlaywrightDriver.close(context): the resources it leaves open.  An exception
\* of context.close() skips close_resources(); an exception of browser.close()
\* skips playwright.stop(); both are caught and logged.
close(closing) ==
  CASE closing = "closed" -> {}
    [] closing = "context_close_raises" -> {"context", "browser", "playwright"}
    [] closing = "browser_close_raises" -> {"browser", "playwright"}

\* -------------------------------------------------------- LinkedIn profile
JitterValues == {1, 5}

ProfileOutcomes == {"found", "signin", "nocount", "exception"}

\* LinkedInProfileAdvancedService.__init__: self.url_variants
url_variants ==
  <<"profile_url", "profile_url/", "profile_url/details/recent-activity/", "profile_url/about/">>

\* an attempt that runs the extraction strategies on the sign-in page too
AttemptEventsExtractAlways(out, delay, final) ==
  CASE out = "found" -> <<Navigate, Extract, Close>>
    [] out = "signin" -> <<Navigate, Extract, Close, Wait(delay)>>
    [] out = "nocount" -> <<Navigate, Extract, Close, Wait(delay)>>
    [] out = "exception" -> <<Navigate, Close>> \o (IF final THEN <<>> ELSE <<Wait(delay)>>)

\* what one iteration of the while loop of get_followers does, in order: the
\* navigation, the extraction strategies, the close of the session, the backoff
AttemptEvents(out, delay, final) ==
  CASE out = "found" -> <<Navigate, Extract, Close>>
    [] out = "signin" -> <<Navigate, Close, Wait(delay)>>
    [] out = "nocount" -> <<Navigate, Extract, Close, Wait(delay)>>
    [] out = "exception" -> <<Navigate, Close>> \o (IF final THEN <<>> ELSE <<Wait(delay)>>)

get_profile_data(followers) ==
  [followers |-> IF followers # None THEN followers ELSE NotFound]

collect_linkedin_profile_data_call ==
  /\ \E unexpected \in BOOLEAN : CallService("profile", unexpected)
  /\ attempt' = 0
  /\ url_to_try' = ""
  /\ UNCHANGED <<cfgVars, extractVars, open_resources, dataVars, results, retry_on_failure, step, retry_count, retries, max_retries, kit_stats, submitVars>>

\* one iteration of the while loop of get_followers
get_followers_attempt ==
  /\ pc = "profile"
  /\ phase = "run"
  /\ attempt < PROFILE_MAX_ATTEMPTS
  /\ attempt' = attempt + 1
  /\ \E out \in ProfileOutcomes, jitter \in JitterValues, closing \in CloseOutcomes,
        v \in DOMAIN url_variants :
       /\ last' = out
       /\ url_to_try' = url_variants[v]
       /\ trace' = trace \o AttemptEvents(out, Pow2(attempt') + jitter,
                                          attempt' = PROFILE_MAX_ATTEMPTS)
       /\ open_resources' = open_resources \cup close(closing)
       /\ Allowed("profile", out = "found" /\ closing = "closed")
       /\ failing' = Note("profile", out = "found" /\ closing = "closed")
       /\ CASE out = "found" ->
                 /\ ret' = Returned(get_profile_data(SampleCount("profile")))
                 /\ phase' = "exit"
            [] out \in {"signin", "nocount"} ->
                 IF attempt' < PROFILE_MAX_ATTEMPTS
                   THEN ret' = ret /\ phase' = phase
                   ELSE ret' = Returned(get_profile_data(None)) /\ phase' = "exit"
            [] out = "exception" ->
                 IF attempt' = PROFILE_MAX_ATTEMPTS
                   THEN ret' = Raised("ScrapingError") /\ phase' = "exit"
                   ELSE ret' = ret /\ phase' = phase
  /\ UNCHANGED <<cfgVars, extractVars, pc, calls, dataVars, results, retry_on_failure, step, retry_count, retries, max_retries, kit_stats, submitVars>>

collect_linkedin_profile_data_return ==
  /\ ReturnFromCollector("profile")
  /\ linkedin_profile_data' = Collected("profile")
  /\ attempt' = 0
  /\ url_to_try' = ""
  /\ UNCHANGED <<cfgVars, extractVars, open_resources, linkedin_company_data, linkedin_newsletter_data, twitter_data,
                 instagram_data, youtube_data, kit_data, results, retry_on_failure,
                 step, retry_count, retries, max_retries, kit_stats, submitVars>>

\* ------------------------------------------------------- LinkedIn companies
CompanyOutcomes == {"found", "no_match", "exception"}

\* the name url_to_name_map gives the i-th configured company URL
url_to_name_map(i) == CompanyNames[i]

\* company_data with the result of get_company_followers passed on as it is
company_data_unchecked(name, out) ==
  CASE out = "found" -> [name |-> name, followers |-> SampleCount(name)]
    [] out = "no_match" -> [name |-> name, followers |-> None]
    [] out = "exception" -> [name |-> name, followers |-> NotFound, error |-> "ScrapingError"]

\* get_all_company_data: the entry appended for a company, by what get_company_followers did
company_data(name, out) ==
  CASE out = "found" -> [name |-> name, followers |-> SampleCount(name)]
    [] out = "no_match" -> [name |-> name, followers |-> NotFound]
    [] out = "exception" -> [name |-> name, followers |-> NotFound, error |-> "ScrapingError"]

collect_linkedin_company_data_call ==
  /\ \E unexpected \in BOOLEAN : CallService("company", unexpected)
  /\ results' = <<>>
  /\ UNCHANGED <<cfgVars, extractVars, open_resources, dataVars, attempt, url_to_try, retry_on_failure, step, retry_count, retries, max_retries, kit_stats, submitVars>>

\* one iteration of the for loop of get_all_company_data
get_all_company_data_step ==
  /\ pc = "company"
  /\ phase = "run"
  /\ Len(results) < Len(CompanyNames)
  /\ LET i == Len(results) + 1
         name == url_to_name_map(i)
     IN \E out \in CompanyOutcomes, closing \in CloseOutcomes :
          /\ last' = out
          /\ open_resources' = open_resources \cup close(closing)
          /\ Allowed("company", out = "found" /\ closing = "closed")
          /\ failing' = Note("company", out = "found" /\ closing = "closed")
          /\ results' = Append(results, company_data(name, out))
          /\ trace' = IF out = "exception" THEN Append(trace, Scrape)
                                            ELSE trace \o <<Scrape, Wait(INTER_COMPANY_DELAY)>>
  /\ IF Len(results') = Len(CompanyNames)
       THEN ret' = Returned(results') /\ phase' = "exit"
       ELSE ret' = ret /\ phase' = phase
  /\ UNCHANGED <<cfgVars, extractVars, pc, calls, dataVars, attempt, url_to_try, retry_on_failure, step, retry_count, retries, max_retries, kit_stats, submitVars>>

collect_linkedin_company_data_return ==
  /\ ReturnFromCollector("company")
  /\ linkedin_company_data' = Collected("company")
  /\ results' = <<>>
  /\ UNCHANGED <<cfgVars, extractVars, open_resources, linkedin_profile_data, linkedin_newsletter_data, twitter_data,
                 instagram_data, youtube_data, kit_data, attempt, url_to_try, retry_on_failure,
                 step, retry_count, retries, max_retries, kit_stats, submitVars>>

\* ------------------------------------------------------ LinkedIn newsletter
NewsletterOutcomes == {"found", "no_match", "exception"}

collect_linkedin_newsletter_data_call ==
  /\ \E unexpected \in BOOLEAN : CallService("newsletter", unexpected)
  /\ UNCHANGED <<cfgVars, extractVars, open_resources, dataVars, svcVars, submitVars>>

\* get_newsletter_data: one call of get_subscribers, then the result dict
get_newsletter_data ==
  /\ pc = "newsletter"
  /\ phase = "run"
  /\ \E out \in NewsletterOutcomes, closing \in CloseOutcomes :
       /\ last' = out
       /\ open_resources' = open_resources \cup close(closing)
       /\ Allowed("newsletter", out = "found" /\ closing = "closed")
       /\ failing' = Note("newsletter", out = "found" /\ closing = "closed")
       /\ ret' = CASE out = "found" -> Returned([subscribers |-> SampleCount("newsletter")])
                   [] out = "no_match" -> Returned([subscribers |-> NotFound])
                   [] out = "exception" -> Raised("ScrapingError")
  /\ trace' = Append(trace, Scrape)
  /\ phase' = "exit"
  /\ UNCHANGED <<cfgVars, extractVars, pc, calls, dataVars, svcVars, submitVars>>

collect_linkedin_newsletter_data_return ==
  /\ ReturnFromCollector("newsletter")
  /\ linkedin_newsletter_data' = Collected("newsletter")
  /\ UNCHANGED <<cfgVars, extractVars, open_resources, linkedin_profile_data, linkedin_company_data, twitter_data,
                 instagram_data, youtube_data, kit_data, svcVars, submitVars>>

\* ----------------------------------------------------------------- Twitter
TwitterResponses ==
  {"ok", "ok_no_count", "rate_limit", "http_error", "no_metrics", "network_error", "unexpected"}

\* TwitterRetryArgument when the recursive call keeps retrying
TwitterRetryAgain == TRUE

\* the argument retry_on_failure of the recursive call get_followers(...)
TwitterRetryArgument == FALSE

\* TwitterExceptClause without the clause that re-raises APIError and RateLimitError
TwitterExceptClauseNoReraise(e) ==
  CASE e \in {"RequestException", "Timeout"} -> "network"
    [] OTHER -> "unexpected"

\* the except clause of get_followers that handles an exception of the given
\* class raised in its try block
TwitterExceptClause(e) ==
  CASE e \in {"RequestException", "Timeout"} -> "network"
    [] e \in {"APIError", "RateLimitError"} -> "reraise"
    [] OTHER -> "unexpected"

\* the exception a response makes the try block raise when no retry is left
TwitterRaises(resp) ==
  CASE resp = "rate_limit" -> "RateLimitError"
    [] resp = "http_error" -> "APIError"
    [] resp = "network_error" -> "RequestException"
    [] resp = "unexpected" -> "ValueError"
    [] OTHER -> "none"

\* the outcome of a get_followers call that has no retry left
TwitterFinal(resp) ==
  LET clause == TwitterExceptClause(TwitterRaises(resp))
  IN CASE resp = "no_metrics" ->
            Returned([followers |-> NotFound, error |-> "No follower data in response"])
       [] clause = "reraise" -> Raised(TwitterRaises(resp))
       [] clause = "network" -> Returned([followers |-> NotFound, error |-> "Network error"])
       [] OTHER -> Returned([followers |-> NotFound, error |-> "Unexpected error"])

collect_twitter_data_call ==
  /\ \E unexpected \in BOOLEAN : CallService("twitter", unexpected)
  /\ retry_on_failure' = TRUE
  /\ UNCHANGED <<cfgVars, extractVars, open_resources, dataVars, attempt, url_to_try, results, step, retry_count, retries, max_retries, kit_stats, submitVars>>

\* one call of get_followers: the request, and on failure either the wait and
\* the recursive call (next step) or the final outcome
get_followers ==
  /\ pc = "twitter"
  /\ phase = "run"
  /\ \E resp \in TwitterResponses :
       LET signal == IF resp = "rate_limit" THEN <<RateLimitSignal>> ELSE <<>>
           seen == Append(trace, Request) \o signal
       IN /\ last' = resp
          /\ Allowed("twitter", resp = "ok")
          /\ Authorized("twitter") \/ resp \in UnauthenticatedResponses
          /\ failing' = Note("twitter", resp = "ok")
          /\ CASE resp = "ok" ->
                    /\ ret' = Returned([followers |-> SampleCount("twitter")])
                    /\ phase' = "exit"
                    /\ trace' = seen
                    /\ UNCHANGED retry_on_failure
               [] resp = "ok_no_count" ->
                    /\ ret' = Returned([followers |-> 0])
                    /\ phase' = "exit"
                    /\ trace' = seen
                    /\ UNCHANGED retry_on_failure
               [] OTHER ->
                    IF retry_on_failure
                      THEN /\ trace' = Append(seen, Wait(TWITTER_COOLDOWN))
                           /\ retry_on_failure' = TwitterRetryArgument
                           /\ UNCHANGED <<ret, phase>>
                      ELSE /\ ret' = TwitterFinal(resp)
                           /\ phase' = "exit"
                           /\ trace' = seen
                           /\ UNCHANGED retry_on_failure
  /\ UNCHANGED <<cfgVars, extractVars, open_resources, pc, calls, dataVars, attempt, url_to_try, results, step, retry_count, retries,
                 max_retries, kit_stats, submitVars>>

collect_twitter_data_return ==
  /\ ReturnFromCollector("twitter")
  /\ twitter_data' = Collected("twitter")
  /\ retry_on_failure' = TRUE
  /\ UNCHANGED <<cfgVars, extractVars, open_resources, linkedin_profile_data, linkedin_company_data, linkedin_newsletter_data,
                 instagram_data, youtube_data, kit_data, attempt, url_to_try, results, step,
                 retry_count, retries, max_retries, kit_stats, submitVars>>

\* --------------------------------------------------------------- Instagram
InstagramApiResponses == {"ok", "ok_text", "fail"}

InstagramScrapeOutcomes == {"graphql_int", "graphql_text", "markup", "no_match", "exception"}

\* _get_followers_from_api: the followers value of a successful result, None on failure
ApiFollowers(resp) ==
  CASE resp = "ok" -> SampleCount("instagram")
    [] resp = "ok_text" -> NonIntText
    [] OTHER -> None

\* _get_followers_from_scraping: the followers value of a successful result, None on failure
ScrapeFollowers(out) ==
  CASE out \in {"graphql_int", "markup"} -> SampleCount("instagram")
    [] out = "graphql_text" -> NonIntText
    [] OTHER -> None

\* SourceTag with the API retry tagged like the first API call
SourceTagNoRetry(s) ==
  CASE s = "api" -> "third-party-api"
    [] s = "scrape" -> "direct-scraping"
    [] s = "api_retry" -> "third-party-api"

\* get_followers: the "source" of the result produced by each step
SourceTag(s) ==
  CASE s = "api" -> "third-party-api"
    [] s = "scrape" -> "direct-scraping"
    [] s = "api_retry" -> "third-party-api-retry"

\* InstagramWait without the exponential factor
InstagramWaitFlat(k) == base_wait_time

\* get_followers: wait_time of retry round k
InstagramWait(k) == base_wait_time * Pow2(k)

collect_instagram_data_call ==
  /\ \E unexpected \in BOOLEAN : CallService("instagram", unexpected)
  /\ step' = "api"
  /\ retry_count' = 0
  /\ UNCHANGED <<cfgVars, extractVars, open_resources, dataVars, attempt, url_to_try, results, retry_on_failure, retries, max_retries, kit_stats, submitVars>>

\* get_followers: the first call of the third-party API
instagram_api ==
  /\ pc = "instagram"
  /\ phase = "run"
  /\ step = "api"
  /\ \E resp \in InstagramApiResponses :
       /\ last' = resp
       /\ Allowed("instagram", resp = "ok")
       /\ failing' = Note("instagram", resp = "ok")
       /\ IF ApiFollowers(resp) # None
            THEN /\ ret' = Returned([followers |-> ApiFollowers(resp), source |-> SourceTag("api")])
                 /\ phase' = "exit"
                 /\ step' = step
            ELSE IF retry_count < instagram_max_retries
                   THEN step' = "scrape" /\ UNCHANGED <<ret, phase>>
                   ELSE /\ step' = step
                        /\ phase' = "exit"
                        /\ ret' = Returned([followers |-> NotFound,
                                            error |-> "All retrieval attempts failed"])
  /\ trace' = Append(trace, Request)
  /\ UNCHANGED <<cfgVars, extractVars, open_resources, pc, calls, dataVars, attempt, url_to_try, results, retry_on_failure, retry_count,
                 retries, max_retries, kit_stats, submitVars>>

\* get_followers, retry round retry_count: the scraping attempt
instagram_scrape ==
  /\ pc = "instagram"
  /\ phase = "run"
  /\ step = "scrape"
  /\ trace' = Append(trace, Scrape)
  /\ \E out \in InstagramScrapeOutcomes, closing \in CloseOutcomes :
       /\ last' = out
       /\ open_resources' = open_resources \cup close(closing)
       /\ Allowed("instagram", FALSE)
       /\ failing' = Note("instagram", FALSE)
       /\ IF ScrapeFollowers(out) # None
            THEN /\ ret' = Returned([followers |-> ScrapeFollowers(out), source |-> SourceTag("scrape")])
                 /\ phase' = "exit"
                 /\ step' = step
            ELSE /\ step' = "api_retry"
                 /\ UNCHANGED <<ret, phase>>
  /\ UNCHANGED <<cfgVars, extractVars, pc, calls, dataVars, attempt, url_to_try, results, retry_on_failure, retry_count,
                 retries, max_retries, kit_stats, submitVars>>

\* get_followers, retry round retry_count: the wait and the API retry
instagram_api_retry ==
  /\ pc = "instagram"
  /\ phase = "run"
  /\ step = "api_retry"
  /\ trace' = trace \o <<Wait(InstagramWait(retry_count)), Request>>
  /\ \E resp \in InstagramApiResponses :
       /\ last' = resp
       /\ IF ApiFollowers(resp) # None
         THEN /\ ret' = Returned([followers |-> ApiFollowers(resp), source |-> SourceTag("api_retry")])
              /\ phase' = "exit"
              /\ UNCHANGED <<step, retry_count>>
         ELSE /\ retry_count' = retry_count + 1
              /\ IF retry_count' < instagram_max_retries
                   THEN step' = "scrape" /\ UNCHANGED <<ret, phase>>
                   ELSE /\ step' = "api"
                        /\ phase' = "exit"
                        /\ ret' = Returned([followers |-> NotFound,
                                            error |-> "All retrieval attempts failed"])
  /\ UNCHANGED <<cfgVars, extractVars, open_resources, pc, calls, failing, dataVars, attempt, url_to_try, results, retry_on_failure,
                 retries, max_retries, kit_stats, submitVars>>

collect_instagram_data_return ==
  /\ ReturnFromCollector("instagram")
  /\ instagram_data' = Collected("instagram")
  /\ step' = "api"
  /\ retry_count' = 0
  /\ UNCHANGED <<cfgVars, extractVars, open_resources, linkedin_profile_data, linkedin_company_data, linkedin_newsletter_data,
                 twitter_data, youtube_data, kit_data, attempt, url_to_try, results, retry_on_failure,
                 retries, max_retries, kit_stats, submitVars>>

\* ----------------------------------------------------------------- YouTube
YouTubeResponses ==
  {"ok", "ok_no_subs", "ok_no_views", "quota", "http_error", "no_items",
   "network_error", "unexpected"}

\* the exception a response makes the try block of get_channel_stats raise, given
\* whether this is the final attempt (retries == max_retries)
YouTubeRaises(resp, final) ==
  CASE resp = "quota" /\ final -> "RateLimitError"
    [] resp = "http_error" /\ final -> "APIError"
    [] resp = "network_error" -> "RequestException"
    [] resp = "unexpected" -> "ValueError"
    [] OTHER -> "none"

\* YouTubeExceptClause with a clause that re-raises APIError and RateLimitError
YouTubeExceptClauseReraise(e) ==
  CASE e \in {"RequestException", "Timeout"} -> "network"
    [] e \in {"APIError", "RateLimitError"} -> "reraise"
    [] OTHER -> "unexpected"

\* the except clause of get_channel_stats that handles an exception raised in its try block
YouTubeExceptClause(e) ==
  CASE e \in {"RequestException", "Timeout"} -> "network"
    [] OTHER -> "unexpected"

YouTubeNotFound(msg) == [subscribers |-> NotFound, views |-> NotFound, error |-> msg]

\* the dict returned for a 200 response that lists the channel
YouTubeStats(resp) ==
  [subscribers |-> IF resp = "ok_no_subs" THEN 0 ELSE SampleCount("youtube.subscribers"),
   views |-> IF resp = "ok_no_views" THEN 0 ELSE SampleCount("youtube.views")]

\* the outcome of the last attempt (retries == max_retries) when it fails
YouTubeFinal(resp) ==
  LET e == YouTubeRaises(resp, TRUE)
      clause == YouTubeExceptClause(e)
  IN CASE e = "none" ->
            Returned(YouTubeNotFound("YouTube API response did not contain channel statistics"))
       [] clause = "reraise" -> Raised(e)
       [] clause = "network" -> Returned(YouTubeNotFound("Network error"))
       [] OTHER -> Returned(YouTubeNotFound("Unexpected error"))

\* YouTubeBackoff computed from the retry counter before it is raised
YouTubeBackoffBeforeIncrement(r) == Pow2(r - 1)

\* the delay slept after the retry counter was raised to r
YouTubeBackoff(r) == Pow2(r)

collect_youtube_data_call ==
  /\ \E unexpected \in BOOLEAN : CallService("youtube", unexpected)
  /\ retries' = 0
  /\ UNCHANGED <<cfgVars, extractVars, open_resources, dataVars, attempt, url_to_try, results, retry_on_failure, step, retry_count,
                 max_retries, kit_stats, submitVars>>

\* one iteration of the while loop of get_channel_stats
get_channel_stats ==
  /\ pc = "youtube"
  /\ phase = "run"
  /\ retries <= max_retries
  /\ \E resp \in YouTubeResponses :
       LET signal == IF resp = "quota" THEN <<RateLimitSignal>> ELSE <<>>
           seen == Append(trace, Request) \o signal
       IN /\ last' = resp
          /\ Allowed("youtube", resp = "ok")
          /\ Authorized("youtube") \/ resp \in UnauthenticatedResponses
          /\ failing' = Note("youtube", resp = "ok")
          /\ CASE resp \in {"ok", "ok_no_subs", "ok_no_views"} ->
                    /\ ret' = Returned(YouTubeStats(resp))
                    /\ phase' = "exit"
                    /\ trace' = seen
                    /\ UNCHANGED retries
               [] OTHER ->
                    IF retries = max_retries
                      THEN /\ ret' = YouTubeFinal(resp)
                           /\ phase' = "exit"
                           /\ trace' = seen
                           /\ UNCHANGED retries
                      ELSE /\ retries' = retries + 1
                           /\ trace' = Append(seen, Wait(YouTubeBackoff(retries')))
                           /\ UNCHANGED <<ret, phase>>
  /\ UNCHANGED <<cfgVars, extractVars, open_resources, pc, calls, dataVars, attempt, url_to_try, results, retry_on_failure, step, retry_count,
                 max_retries, kit_stats, submitVars>>

collect_youtube_data_return ==
  /\ ReturnFromCollector("youtube")
  /\ youtube_data' = Collected("youtube")
  /\ retries' = 0
  /\ UNCHANGED <<cfgVars, extractVars, open_resources, linkedin_profile_data, linkedin_company_data, linkedin_newsletter_data,
                 twitter_data, instagram_data, kit_data, attempt, url_to_try, results, retry_on_failure,
                 step, retry_count, max_retries, kit_stats, submitVars>>

\* --------------------------------------------------------------------- Kit
KitResponses == {"ok", "ok_no_stats", "rate_limit", "http_error", "network_error", "unexpected"}

\* the exception a response makes the try block of _pull_stats raise
KitRaises(resp) ==
  CASE resp = "rate_limit" -> "RateLimitError"
    [] resp = "http_error" -> "APIError"
    [] resp = "network_error" -> "RequestException"
    [] resp = "unexpected" -> "ValueError"
    [] OTHER -> "none"

\* the except clause of _pull_stats that handles an exception raised in its try block
KitExceptClause(e) ==
  CASE e \in {"APIError", "RateLimitError"} -> "reraise"
    [] e = "RequestException" -> "network"
    [] OTHER -> "unexpected"

\* the dict _pull_stats returns for a 200 response
KitStats(time_range, resp) ==
  [time_range |-> time_range,
   subscribers |-> IF resp = "ok" THEN SampleCount(time_range) ELSE 0,
   cancellations |-> IF resp = "ok" THEN SampleCount(time_range) + 1 ELSE 0,
   net_new_subscribers |-> IF resp = "ok" THEN SampleCount(time_range) + 2 ELSE 0,
   new_subscribers |-> IF resp = "ok" THEN SampleCount(time_range) + 3 ELSE 0]

\* the dict _pull_stats returns from its network and unexpected-error clauses
KitNotFound(time_range, msg) ==
  [time_range |-> time_range, subscribers |-> NotFound, cancellations |-> NotFound,
   net_new_subscribers |-> NotFound, new_subscribers |-> NotFound, error |-> msg]

\* the dict the except clause of get_all_stats returns
KitAllFailed(e) ==
  [r \in {"daily", "weekly", "monthly"} |-> [error |-> e, subscribers |-> NotFound]]

KitAll(stats) ==
  [r \in {"daily", "weekly", "monthly"} |->
     CASE r = "daily" -> stats[1] [] r = "weekly" -> stats[2] [] r = "monthly" -> stats[3]]

collect_kit_data_call ==
  /\ \E unexpected \in BOOLEAN : CallService("kit", unexpected)
  /\ kit_stats' = <<>>
  /\ UNCHANGED <<cfgVars, extractVars, open_resources, dataVars, attempt, url_to_try, results, retry_on_failure, step, retry_count,
                 retries, max_retries, submitVars>>

\* get_all_stats: the next of the three calls of _pull_stats
pull_stats ==
  /\ pc = "kit"
  /\ phase = "run"
  /\ Len(kit_stats) < Len(KitRanges)
  /\ LET time_range == KitRanges[Len(kit_stats) + 1]
     IN \E resp \in KitResponses :
          LET signal == IF resp = "rate_limit" THEN <<RateLimitSignal>> ELSE <<>>
              clause == KitExceptClause(KitRaises(resp))
          IN /\ last' = resp
             /\ Allowed("kit", resp = "ok")
             /\ Authorized("kit") \/ resp \in UnauthenticatedResponses
             /\ failing' = Note("kit", resp = "ok")
             /\ trace' = Append(trace, Request) \o signal
             /\ CASE KitRaises(resp) = "none" ->
                       kit_stats' = Append(kit_stats, KitStats(time_range, resp))
                  [] clause = "reraise" -> kit_stats' = kit_stats
                  [] clause = "network" ->
                       kit_stats' = Append(kit_stats, KitNotFound(time_range, "Network error"))
                  [] OTHER ->
                       kit_stats' = Append(kit_stats, KitNotFound(time_range, "Unexpected error"))
             /\ CASE KitRaises(resp) # "none" /\ clause = "reraise" ->
                       ret' = Returned(KitAllFailed(KitRaises(resp))) /\ phase' = "exit"
                  [] Len(kit_stats') = Len(KitRanges) ->
                       ret' = Returned(KitAll(kit_stats')) /\ phase' = "exit"
                  [] OTHER -> UNCHANGED <<ret, phase>>
  /\ UNCHANGED <<cfgVars, extractVars, open_resources, pc, calls, dataVars, attempt, url_to_try, results, retry_on_failure, step, retry_count,
                 retries, max_retries, submitVars>>

collect_kit_data_return ==
  /\ ReturnFromCollector("kit")
  /\ kit_data' = Collected("kit")
  /\ kit_stats' = <<>>
  /\ UNCHANGED <<cfgVars, extractVars, open_resources, linkedin_profile_data, linkedin_company_data, linkedin_newsletter_data,
                 twitter_data, instagram_data, youtube_data, attempt, url_to_try, results,
                 retry_on_failure, step, retry_count, retries, max_retries, submitVars>>

\* -------------------------------------------------------------- submission
\* config.settings: the form field id of each key of a form map
FOLLOWERS_FORM_FIELDS ==
  "Business Infographics" :> "entry.1247179473" @@
  "Nicolas Boucher Online" :> "entry.1150066733" @@
  "AI Finance Club" :> "entry.269674828" @@
  "Excel Cheatsheets" :> "entry.112291860" @@
  "Nicolas Boucher Personal Account" :> "entry.627780398" @@
  "AI + Finance by Nicolas Boucher Newsteller" :> "entry.508828894" @@
  "Nicolas Boucher Online Videos | YouTube Subscribers" :> "entry.114799247" @@
  "Nicolas Boucher Online Videos | YouTube Total Views" :> "entry.1433952907" @@
  "Instagram Total Followers" :> "entry.147129590" @@
  "X Total Number of Followers" :> "entry.121881511" @@
  "Kit's Daily Number of Subscribers" :> "entry.395742871"

KIT_STATS_FORM_FIELDS ==
  "Today's Number of Subs" :> "entry.1792758135" @@
  "Cancellation" :> "entry.228306667" @@
  "Net New Subscribers" :> "entry.862964481" @@
  "New Subscribers" :> "entry.1339230177" @@
  "Weekly Number of Subscribers" :> "entry.1849968148" @@
  "Weekly Cancellations" :> "entry.15667906" @@
  "Weekly Net New Subscribers" :> "entry.1685405274" @@
  "Weekly New Subscribers" :> "entry.1145101214" @@
  "Monthly Number of Subs" :> "entry.1509411799" @@
  "Monthly Cancellations" :> "entry.759665711" @@
  "Monthly Net New Subscribers" :> "entry.1932265942" @@
  "Monthly New Subscribers" :> "entry.2091527192"

\* submit_followers_data: company_data_by_name (a later entry replaces an earlier one)
company_data_by_name(companies) ==
  [n \in {companies[i].name : i \in DOMAIN companies} |->
     companies[CHOOSE i \in DOMAIN companies :
                 /\ companies[i].name = n
                 /\ \A j \in DOMAIN companies : companies[j].name = n => j <= i]]

\* company_data_by_name.get(name, {}).get("followers")
CompanyFollowers(by_name, name) ==
  IF name \in DOMAIN by_name THEN Get(by_name[name], "followers") ELSE Get(EmptyDict, "followers")

\* the name under which submit_followers_data looks up the company of a form key
CompanyLookupName(key) ==
  IF key = "AI Finance Club" THEN "Ai Finance Club" ELSE key

\* submit_followers_data: form_data
FollowersFormData(profile, companies, newsletter, youtube, instagram, twitter, kit_daily) ==
  LET by_name == company_data_by_name(companies)
  IN "Nicolas Boucher Personal Account" :> Get(profile, "followers") @@
     "Business Infographics" :> CompanyFollowers(by_name, CompanyLookupName("Business Infographics")) @@
     "Nicolas Boucher Online" :> CompanyFollowers(by_name, CompanyLookupName("Nicolas Boucher Online")) @@
     "AI Finance Club" :> CompanyFollowers(by_name, CompanyLookupName("AI Finance Club")) @@
     "Excel Cheatsheets" :> CompanyFollowers(by_name, CompanyLookupName("Excel Cheatsheets")) @@
     "AI + Finance by Nicolas Boucher Newsteller" :> Get(newsletter, "subscribers") @@
     "Nicolas Boucher Online Videos | YouTube Subscribers" :> Get(youtube, "subscribers") @@
     "Nicolas Boucher Online Videos | YouTube Total Views" :> Get(youtube, "views") @@
     "Instagram Total Followers" :> Get(instagram, "followers") @@
     "X Total Number of Followers" :> Get(twitter, "followers") @@
     "X Followers Last 30 Days" :> GetOr(twitter, "followers_last_30_days", NotAvailable) @@
     "X Followers Last 30 Days Percentage" :> GetOr(twitter, "followers_percentage", NotAvailable) @@
     "Kit's Daily Number of Subscribers" :> Get(kit_daily, "subscribers")

\* submit_kit_stats: form_data
KitFormData(kit_daily, kit_weekly, kit_monthly) ==
  "Today's Number of Subs" :> Get(kit_daily, "subscribers") @@
  "Cancellation" :> Get(kit_daily, "cancellations") @@
  "Net New Subscribers" :> Get(kit_daily, "net_new_subscribers") @@
  "New Subscribers" :> Get(kit_daily, "new_subscribers") @@
  "Weekly Number of Subscribers" :> Get(kit_weekly, "subscribers") @@
  "Weekly Cancellations" :> Get(kit_weekly, "cancellations") @@
  "Weekly Net New Subscribers" :> Get(kit_weekly, "net_new_subscribers") @@
  "Weekly New Subscribers" :> Get(kit_weekly, "new_subscribers") @@
  "Monthly Number of Subs" :> Get(kit_monthly, "subscribers") @@
  "Monthly Cancellations" :> Get(kit_monthly, "cancellations") @@
  "Monthly Net New Subscribers" :> Get(kit_monthly, "net_new_subscribers") @@
  "Monthly New Subscribers" :> Get(kit_monthly, "new_subscribers")

\* a body that keeps the unmapped keys, under their own names
FormBodyKeepsUnmapped(data, form_fields) ==
  [id \in {GetOr(form_fields, k, k) : k \in DOMAIN data} |->
     data[CHOOSE k \in DOMAIN data : GetOr(form_fields, k, k) = id]]

\* GoogleFormsSubmitter.submit_data: form_data = {form_fields[key]: value ...}
FormBody(data, form_fields) ==
  [id \in {form_fields[k] : k \in DOMAIN data \cap DOMAIN form_fields} |->
     data[CHOOSE k \in DOMAIN data \cap DOMAIN form_fields : form_fields[k] = id]]

FORM_MAX_RETRIES == 3

PostOutcomes == {"200", "2xx", "non2xx", "request_error", "other_error"}

\* the form the running submission posts to
FormOf(p) == IF p = "submit_followers" THEN "followers" ELSE "kit"

\* main.submit_data up to the POST loop of submit_followers_data
submit_followers_data_call ==
  /\ pc = "submit_followers"
  /\ phase = "call"
  /\ form_data' = FollowersFormData(linkedin_profile_data, linkedin_company_data,
                                    linkedin_newsletter_data, youtube_data, instagram_data,
                                    twitter_data, kit_data["daily"])
  /\ maps' = Append(maps, [form |-> "followers", data |-> form_data'])
  /\ body' = FormBody(form_data', FOLLOWERS_FORM_FIELDS)
  /\ form_retries' = 0
  /\ sent' = <<>>
  /\ phase' = "run"
  /\ trace' = <<>>
  /\ last' = "none"
  /\ UNCHANGED <<cfgVars, extractVars, open_resources, pc, calls, failing, ret, dataVars, svcVars, followers_success,
                 submission_success, posted>>

\* main.submit_data from the return of submit_followers_data to the POST loop of submit_kit_stats
submit_kit_stats_call ==
  /\ pc = "submit_kit"
  /\ phase = "call"
  /\ form_data' = KitFormData(kit_data["daily"], kit_data["weekly"], kit_data["monthly"])
  /\ maps' = Append(maps, [form |-> "kit", data |-> form_data'])
  /\ body' = FormBody(form_data', KIT_STATS_FORM_FIELDS)
  /\ form_retries' = 0
  /\ sent' = <<>>
  /\ phase' = "run"
  /\ trace' = <<>>
  /\ last' = "none"
  /\ UNCHANGED <<cfgVars, extractVars, open_resources, pc, calls, failing, ret, dataVars, svcVars, followers_success,
                 submission_success, posted>>

\* a backoff that grows by two seconds per retry
FormBackoffLinear(r) == 2 * r

\* submit_data: time.sleep(2 ** retries), after retries += 1
FormBackoff(r) == Pow2(r)

\* a retry that leaves the counter as it is
retries_kept(r) == r

\* submit_data: retries += 1
retries_incremented(r) == r + 1

\* whether GoogleFormsSubmitter.submit_data takes a response as a success
PostSucceeded(out) == out = "200"

\* one iteration of the while loop of GoogleFormsSubmitter.submit_data
submit_data_post ==
  /\ pc \in {"submit_followers", "submit_kit"}
  /\ phase = "run"
  /\ form_retries <= FORM_MAX_RETRIES
  /\ posted' = Append(posted, FormOf(pc))
  /\ sent' = Append(sent, body)
  /\ \E out \in PostOutcomes :
       /\ last' = out
       /\ CASE PostSucceeded(out) ->
              /\ ret' = Returned(TRUE)
              /\ phase' = "exit"
              /\ trace' = Append(trace, Request)
              /\ UNCHANGED form_retries
         [] out = "other_error" ->
              /\ ret' = Raised("DataSubmissionError")
              /\ phase' = "exit"
              /\ trace' = Append(trace, Request)
              /\ UNCHANGED form_retries
         [] OTHER ->
              IF form_retries = FORM_MAX_RETRIES
                THEN /\ ret' = Returned(FALSE)
                     /\ phase' = "exit"
                     /\ trace' = Append(trace, Request)
                     /\ UNCHANGED form_retries
                ELSE /\ form_retries' = retries_incremented(form_retries)
                     /\ trace' = trace \o <<Request, Wait(FormBackoff(form_retries'))>>
                     /\ UNCHANGED <<ret, phase>>
  /\ UNCHANGED <<cfgVars, extractVars, open_resources, pc, calls, failing, dataVars, svcVars, form_data, body, maps, followers_success,
                 submission_success>>

\* main.submit_data once submit_followers_data has returned or raised
submit_followers_data_return ==
  /\ pc = "submit_followers"
  /\ phase = "exit"
  /\ IF ret.kind = "return"
       THEN /\ followers_success' = ret.value
            /\ pc' = "submit_kit"
            /\ phase' = "call"
            /\ UNCHANGED submission_success
       ELSE /\ submission_success' = FALSE
            /\ pc' = "done"
            /\ phase' = "exit"
            /\ UNCHANGED followers_success
  /\ ret' = Pending
  /\ trace' = <<>>
  /\ last' = "none"
  /\ form_retries' = 0
  /\ sent' = <<>>
  /\ UNCHANGED <<cfgVars, extractVars, open_resources, calls, failing, dataVars, svcVars, form_data, body, maps, posted>>

\* either submission returned True
EitherSucceeded(f, k) == f \/ k

\* submit_data: `if followers_success and kit_success`
BothSucceeded(f, k) == f /\ k

\* main.submit_data once submit_kit_stats has returned or raised, and the return
\* of run_followers_tracker
submit_kit_stats_return ==
  /\ pc = "submit_kit"
  /\ phase = "exit"
  /\ submission_success' = IF ret.kind = "return" THEN BothSucceeded(followers_success, ret.value)
                                                  ELSE FALSE
  /\ pc' = "done"
  /\ ret' = Pending
  /\ trace' = <<>>
  /\ last' = "none"
  /\ form_retries' = 0
  /\ sent' = <<>>
  /\ UNCHANGED <<cfgVars, extractVars, open_resources, phase, calls, failing, dataVars, svcVars, form_data, body, maps,
                 followers_success, posted>>

\* ----------------------------------------------------------- specification
Next ==
  \/ collect_linkedin_profile_data_call
  \/ get_followers_attempt
  \/ collect_linkedin_profile_data_return
  \/ collect_linkedin_company_data_call
  \/ get_all_company_data_step
  \/ collect_linkedin_company_data_return
  \/ collect_linkedin_newsletter_data_call
  \/ get_newsletter_data
  \/ collect_linkedin_newsletter_data_return
  \/ collect_twitter_data_call
  \/ get_followers
  \/ collect_twitter_data_return
  \/ collect_instagram_data_call
  \/ instagram_api
  \/ instagram_scrape
  \/ instagram_api_retry
  \/ collect_instagram_data_return
  \/ collect_youtube_data_call
  \/ get_channel_stats
  \/ collect_youtube_data_return
  \/ collect_kit_data_call
  \/ pull_stats
  \/ collect_kit_data_return
  \/ submit_followers_data_call
  \/ submit_data_post
  \/ submit_followers_data_return
  \/ submit_kit_stats_call
  \/ submit_kit_stats_return

Spec == Init /\ [][Next]_vars

\* the steps of a run in which every close of a browser session releases it:
\* close() catches whatever context.close() and browser.close() raise and
\* returns, so its outcome never decides what the run does next
NextLive == Next /\ open_resources' = {}

\* the run is one thread of control: every request and page load has a timeout
\* and every sleep is finite, so a step that can be taken is taken
SpecLive == Init /\ [][NextLive]_vars /\ WF_vars(NextLive)

\* get_channel_stats called on its own with max_retries = N, once the five
\* collectors before it have returned their nominal results
InitYouTube ==
  /\ pc = "youtube"
  /\ phase = "call"
  /\ calls = SubSeq(Collectors, 1, 5)
  /\ failing = {}
  /\ ret = Pending
  /\ trace = <<>>
  /\ last = "none"
  /\ linkedin_profile_data = get_profile_data(SampleCount("profile"))
  /\ linkedin_company_data =
       [i \in 1..4 |-> [name |-> CompanyNames[i], followers |-> SampleCount(CompanyNames[i])]]
  /\ linkedin_newsletter_data = [subscribers |-> SampleCount("newsletter")]
  /\ twitter_data = [followers |-> SampleCount("twitter")]
  /\ instagram_data = [followers |-> SampleCount("instagram"), source |-> "third-party-api"]
  /\ youtube_data = Unset
  /\ kit_data = Unset
  /\ attempt = 0
  /\ url_to_try = ""
  /\ results = <<>>
  /\ retry_on_failure = TRUE
  /\ step = "api"
  /\ retry_count = 0
  /\ retries = 0
  /\ max_retries \in 0..MaxYtRetries
  /\ kit_stats = <<>>
  /\ form_data = EmptyDict
  /\ body = EmptyDict
  /\ form_retries = 0
  /\ followers_success = FALSE
  /\ submission_success = FALSE
  /\ posted = <<>>
  /\ sent = <<>>
  /\ maps = <<>>
  /\ instagram_max_retries = INSTAGRAM_MAX_RETRIES
  /\ credentials = Credentials
  /\ open_resources = {}
  /\ page_content = <<>>
  /\ extracted = EmptyDict
  /\ response_json = JNull
  /\ context = NoContext
  /\ session_log = <<>>
  /\ graphql_data = JNull
  /\ responses = <<>>

NextYouTube ==
  \/ collect_youtube_data_call
  \/ get_channel_stats
  \/ collect_youtube_data_return

SpecYouTube == InitYouTube /\ [][NextYouTube]_vars

\* one call of collect_instagram_data, for every self.max_retries up to MaxIgRetries
InitInstagram ==
  /\ pc = "instagram"
  /\ phase = "call"
  /\ calls = SubSeq(Collectors, 1, 4)
  /\ failing = {}
  /\ ret = Pending
  /\ trace = <<>>
  /\ last = "none"
  /\ linkedin_profile_data = get_profile_data(SampleCount("profile"))
  /\ linkedin_company_data =
       [i \in 1..4 |-> [name |-> CompanyNames[i], followers |-> SampleCount(CompanyNames[i])]]
  /\ linkedin_newsletter_data = [subscribers |-> SampleCount("newsletter")]
  /\ twitter_data = [followers |-> SampleCount("twitter")]
  /\ instagram_data = Unset
  /\ youtube_data = Unset
  /\ kit_data = Unset
  /\ attempt = 0
  /\ url_to_try = ""
  /\ results = <<>>
  /\ retry_on_failure = TRUE
  /\ step = "api"
  /\ retry_count = 0
  /\ retries = 0
  /\ max_retries = YT_DEFAULT_MAX_RETRIES
  /\ kit_stats = <<>>
  /\ form_data = EmptyDict
  /\ body = EmptyDict
  /\ form_retries = 0
  /\ followers_success = FALSE
  /\ submission_success = FALSE
  /\ posted = <<>>
  /\ sent = <<>>
  /\ maps = <<>>
  /\ instagram_max_retries \in 0..MaxIgRetries
  /\ credentials = Credentials
  /\ open_resources = {}
  /\ page_content = <<>>
  /\ extracted = EmptyDict
  /\ response_json = JNull
  /\ context = NoContext
  /\ session_log = <<>>
  /\ graphql_data = JNull
  /\ responses = <<>>

NextInstagram ==
  \/ collect_instagram_data_call
  \/ instagram_api
  \/ instagram_scrape
  \/ instagram_api_retry
  \/ collect_instagram_data_return

SpecInstagram == InitInstagram /\ [][NextInstagram]_vars

\* the API collectors, for every set of credentials present in the environment
InitCredentials ==
  /\ pc \in {"twitter", "youtube", "kit"}
  /\ phase = "call"
  /\ calls = SubSeq(Collectors, 1, CHOOSE k \in 0..6 : Collectors[k + 1] = pc)
  /\ failing = {}
  /\ ret = Pending
  /\ trace = <<>>
  /\ last = "none"
  /\ linkedin_profile_data = get_profile_data(SampleCount("profile"))
  /\ linkedin_company_data =
       [i \in 1..4 |-> [name |-> CompanyNames[i], followers |-> SampleCount(CompanyNames[i])]]
  /\ linkedin_newsletter_data = [subscribers |-> SampleCount("newsletter")]
  /\ twitter_data = IF pc = "twitter" THEN Unset ELSE [followers |-> SampleCount("twitter")]
  /\ instagram_data =
       IF pc = "twitter" THEN Unset
       ELSE [followers |-> SampleCount("instagram"), source |-> "third-party-api"]
  /\ youtube_data = IF pc = "kit" THEN YouTubeStats("ok") ELSE Unset
  /\ kit_data = Unset
  /\ attempt = 0
  /\ url_to_try = ""
  /\ results = <<>>
  /\ retry_on_failure = TRUE
  /\ step = "api"
  /\ retry_count = 0
  /\ retries = 0
  /\ max_retries = YT_DEFAULT_MAX_RETRIES
  /\ kit_stats = <<>>
  /\ form_data = EmptyDict
  /\ body = EmptyDict
  /\ form_retries = 0
  /\ followers_success = FALSE
  /\ submission_success = FALSE
  /\ posted = <<>>
  /\ sent = <<>>
  /\ maps = <<>>
  /\ instagram_max_retries = INSTAGRAM_MAX_RETRIES
  /\ credentials \in SUBSET Credentials
  /\ open_resources = {}
  /\ page_content = <<>>
  /\ extracted = EmptyDict
  /\ response_json = JNull
  /\ context = NoContext
  /\ session_log = <<>>
  /\ graphql_data = JNull
  /\ responses = <<>>

NextCredentials ==
  \/ collect_twitter_data_call
  \/ get_followers
  \/ collect_twitter_data_return
  \/ collect_youtube_data_call
  \/ get_channel_stats
  \/ collect_youtube_data_return
  \/ collect_kit_data_call
  \/ pull_stats
  \/ collect_kit_data_return

SpecCredentials == InitCredentials /\ [][NextCredentials]_vars

\* ------------------------------------------------------- submission mapper
\* what a collect_* function can hand to the submission: the result of a
\* successful service call, of one that found nothing, or the placeholder
AcquisitionResults(name) ==
  {PlaceholderOf(name, ConstructionError)} \cup
  CASE name = "profile" -> {get_profile_data(SampleCount("profile")), get_profile_data(None)}
    [] name = "company" ->
         {[i \in 1..4 |-> company_data(CompanyNames[i], out[i])] :
            out \in [1..4 -> {"found", "exception"}]}
    [] name = "newsletter" -> {[subscribers |-> SampleCount("newsletter")], [subscribers |-> NotFound]}
    [] name = "twitter" -> {[followers |-> SampleCount("twitter")]}
    [] name = "instagram" ->
         {[followers |-> SampleCount("instagram"), source |-> "third-party-api"],
          [followers |-> NonIntText, source |-> "direct-scraping"]}
    [] name = "youtube" -> {YouTubeStats("ok"), YouTubeNotFound("APIError")}
    [] name = "kit" ->
         {KitAll(<<KitStats("daily", "ok"), KitStats("weekly", "ok"), KitStats("monthly", "ok")>>),
          KitAllFailed("RateLimitError")}

\* a dict after a lookup that removes the key it reads
AfterPop(d, k) == [x \in DOMAIN d \ {k} |-> d[x]]

\* a dict after d.get(k): the lookup leaves it as it was
AfterGet(d, k) == d

\* submit_followers_data: the form map is built from the acquisition results
map_followers_data ==
  /\ Len(maps) < MaxBuilds
  /\ form_data' = FollowersFormData(linkedin_profile_data, linkedin_company_data,
                                    linkedin_newsletter_data, youtube_data, instagram_data,
                                    twitter_data, kit_data["daily"])
  /\ maps' = Append(maps, [form |-> "followers", data |-> form_data'])
  /\ linkedin_profile_data' = AfterGet(linkedin_profile_data, "followers")
  /\ linkedin_company_data' =
       [i \in DOMAIN linkedin_company_data |-> AfterGet(linkedin_company_data[i], "followers")]
  /\ linkedin_newsletter_data' = AfterGet(linkedin_newsletter_data, "subscribers")
  /\ youtube_data' = AfterGet(AfterGet(youtube_data, "subscribers"), "views")
  /\ instagram_data' = AfterGet(instagram_data, "followers")
  /\ twitter_data' = AfterGet(twitter_data, "followers")
  /\ kit_data' = [kit_data EXCEPT !["daily"] = AfterGet(@, "subscribers")]
  /\ UNCHANGED <<cfgVars, extractVars, open_resources, pc, phase, calls, failing, ret, trace, last,
                 svcVars, body, form_retries, followers_success, submission_success, posted, sent>>

\* submit_kit_stats: the form map is built from the three Kit results
map_kit_stats ==
  /\ Len(maps) < MaxBuilds
  /\ form_data' = KitFormData(kit_data["daily"], kit_data["weekly"], kit_data["monthly"])
  /\ maps' = Append(maps, [form |-> "kit", data |-> form_data'])
  /\ kit_data' = [r \in DOMAIN kit_data |-> AfterGet(kit_data[r], "subscribers")]
  /\ UNCHANGED <<cfgVars, extractVars, open_resources, pc, phase, calls, failing, ret, trace, last,
                 linkedin_profile_data, linkedin_company_data, linkedin_newsletter_data,
                 twitter_data, instagram_data, youtube_data,
                 svcVars, body, form_retries, followers_success, submission_success, posted, sent>>

InitMapper ==
  /\ pc = "submit_followers"
  /\ calls = Collectors
  /\ max_retries = YT_DEFAULT_MAX_RETRIES
  /\ phase = "call"
  /\ failing = {}
  /\ ret = Pending
  /\ trace = <<>>
  /\ last = "none"
  /\ attempt = 0
  /\ url_to_try = ""
  /\ results = <<>>
  /\ retry_on_failure = TRUE
  /\ step = "api"
  /\ retry_count = 0
  /\ retries = 0
  /\ kit_stats = <<>>
  /\ form_data = EmptyDict
  /\ body = EmptyDict
  /\ form_retries = 0
  /\ followers_success = FALSE
  /\ submission_success = FALSE
  /\ posted = <<>>
  /\ sent = <<>>
  /\ maps = <<>>
  /\ instagram_max_retries = INSTAGRAM_MAX_RETRIES
  /\ credentials = Credentials
  /\ open_resources = {}
  /\ page_content = <<>>
  /\ extracted = EmptyDict
  /\ response_json = JNull
  /\ context = NoContext
  /\ session_log = <<>>
  /\ graphql_data = JNull
  /\ responses = <<>>
  /\ linkedin_profile_data \in AcquisitionResults("profile")
  /\ linkedin_company_data \in AcquisitionResults("company")
  /\ linkedin_newsletter_data \in AcquisitionResults("newsletter")
  /\ twitter_data \in AcquisitionResults("twitter")
  /\ instagram_data \in AcquisitionResults("instagram")
  /\ youtube_data \in AcquisitionResults("youtube")
  /\ kit_data \in AcquisitionResults("kit")

NextMapper ==
  \/ map_followers_data
  \/ map_kit_stats

SpecMapper == InitMapper /\ [][NextMapper]_vars

\* -------------------------------------------------------- markup extractors
(***************************************************************************)
(* A page text is a sequence of tokens: single characters, and fragments   *)
(* of markup that the patterns name as a whole ("follower", "Count", ...). *)
(* A pattern is a sequence of elements, each a class of tokens with a      *)
(* greedy repetition range; the elements marked cap form group 1.          *)
(***************************************************************************)
Digits == {"0", "1", "2", "3", "4", "5", "6", "7", "8", "9"}

DigitValue ==
  "0" :> 0 @@ "1" :> 1 @@ "2" :> 2 @@ "3" :> 3 @@ "4" :> 4 @@
  "5" :> 5 @@ "6" :> 6 @@ "7" :> 7 @@ "8" :> 8 @@ "9" :> 9

Tokens ==
  Digits \cup
  {",", " ", "s", "\"", "'", ":", ">", "<", "}", "x", "follower", "Follower", "subscriber",
   "connection", "Count", "_count", "&quot;", "</span>", "<span>", "<span class=\"",
   "\"name\":\"Follows\",\"userInteractionCount\":", "\"edge_followed_by\":{\"count\":"}

\* \s
Space == {" "}

\* [^"] and [^<]: the tokens without that character
NotQuote ==
  Tokens \ {"\"", "<span class=\"", "\"name\":\"Follows\",\"userInteractionCount\":",
            "\"edge_followed_by\":{\"count\":"}

NotLt == Tokens \ {"<", "</span>", "<span>", "<span class=\""}

Unbounded == 1000

Rep(cls, lo, hi) == [cls |-> cls, lo |-> lo, hi |-> hi, cap |-> FALSE]

Cap(cls, lo, hi) == [cls |-> cls, lo |-> lo, hi |-> hi, cap |-> TRUE]

Lit(tok) == Rep({tok}, 1, 1)

Opt(cls) == Rep(cls, 0, 1)

\* (\d+), (\d+,?\d*) and ([\d,]+)
CapDigits == <<Cap(Digits, 1, Unbounded)>>

CapNumber == <<Cap(Digits, 1, Unbounded), Cap({","}, 0, 1), Cap(Digits, 0, Unbounded)>>

CapDigitsCommas == <<Cap(Digits \cup {","}, 1, Unbounded)>>

NoMatch == [ok |-> FALSE, ends |-> <<>>]

\* the longest run of tokens of cls from offset pos, at most hi long
MaxRun(cls, text, pos, hi) ==
  LET limit == IF hi < Len(text) - pos THEN hi ELSE Len(text) - pos
  IN CHOOSE n \in 0..limit :
       /\ \A j \in 1..n : text[pos + j] \in cls
       /\ n = limit \/ text[pos + n + 1] \notin cls

RECURSIVE MatchAt(_, _, _, _)
RECURSIVE TryCount(_, _, _, _, _)
\* element i takes n tokens if the rest matches, else one token fewer (greedy, backtracking)
TryCount(pat, text, i, pos, n) ==
  IF n < pat[i].lo
    THEN NoMatch
    ELSE LET r == MatchAt(pat, text, i + 1, pos + n)
         IN IF r.ok THEN [ok |-> TRUE, ends |-> <<pos + n>> \o r.ends]
                    ELSE TryCount(pat, text, i, pos, n - 1)

\* the elements i.. of pat matched at offset pos: the offset at which each one ends
MatchAt(pat, text, i, pos) ==
  IF i > Len(pat)
    THEN [ok |-> TRUE, ends |-> <<>>]
    ELSE TryCount(pat, text, i, pos, MaxRun(pat[i].cls, text, pos, pat[i].hi))

\* re.search(pattern, text): the leftmost match, and its group 1
Search(pat, text) ==
  LET starts == {st \in 0..Len(text) : MatchAt(pat, text, 1, st).ok}
  IN IF starts = {}
       THEN [ok |-> FALSE, group |-> <<>>]
       ELSE LET st == CHOOSE x \in starts : \A y \in starts : x <= y
                m == MatchAt(pat, text, 1, st)
                caps == {i \in DOMAIN pat : pat[i].cap}
                first == CHOOSE x \in caps : \A y \in caps : x <= y
                final == CHOOSE x \in caps : \A y \in caps : x >= y
                from == IF first = 1 THEN st ELSE m.ends[first - 1]
            IN [ok |-> TRUE, group |-> SubSeq(text, from + 1, m.ends[final])]

NotComma(tok) == tok # ","

\* str.replace(',', '')
RemoveCommas(t) == SelectSeq(t, NotComma)

\* str.isdigit(), and whether int(...) accepts the text
IsDigitText(t) == t # <<>> /\ \A i \in DOMAIN t : t[i] \in Digits

RECURSIVE ToInt(_)
ToInt(t) ==
  IF t = <<>> THEN 0 ELSE 10 * ToInt(SubSeq(t, 1, Len(t) - 1)) + DigitValue[t[Len(t)]]

\* LinkedInCompanyService._extract_followers: patterns
CompanyPatterns ==
  << CapNumber \o <<Rep(Space, 1, Unbounded), Lit("follower"), Lit("s")>>,
     <<Lit("follower"), Lit("Count"), Lit("&quot;"), Lit(":")>> \o CapDigits,
     <<Lit("follower"), Lit("Count"), Lit("\""), Lit(":")>> \o CapDigits,
     CapNumber \o <<Rep(Space, 0, Unbounded), Lit("follower")>> >>

\* LinkedInProfileAdvancedService._extract_followers_from_content: patterns
ProfilePatterns ==
  << <<Lit("\"name\":\"Follows\",\"userInteractionCount\":")>> \o CapDigits,
     <<Lit("follower"), Lit("Count"), Lit("\""), Lit(":")>> \o CapDigits,
     <<Lit("\""), Lit("follower"), Lit("Count"), Lit("\""), Lit(":")>> \o CapDigits,
     CapNumber \o <<Rep(Space, 1, Unbounded), Lit("follower"), Lit("s")>>,
     CapNumber \o <<Rep(Space, 1, Unbounded), Lit("Follower"), Lit("s")>>,
     <<Lit(">")>> \o CapNumber \o
       <<Lit("</span>"), Rep(Space, 0, Unbounded), Lit("<span>"), Lit("follower"), Lit("s")>>,
     <<Lit("follower"), Opt({"s"}), Lit("\""), Opt({" "}), Opt({":"}), Opt({" "}),
       Opt({"\"", "'"})>> \o CapNumber,
     <<Lit("connection"), Opt({"s"}), Opt({"\"", "'"}), Lit(":")>> \o CapNumber >>

\* LinkedInNewsletterService._extract_subscribers: patterns
NewsletterPatterns ==
  << CapDigitsCommas \o <<Rep(Space, 1, Unbounded), Lit("follower"), Lit("s")>>,
     CapDigitsCommas \o <<Rep(Space, 1, Unbounded), Lit("subscriber"), Lit("s")>>,
     <<Lit("subscriber"), Lit("s"), Lit("&quot;"), Lit(":"), Lit("&quot;")>> \o
       CapDigitsCommas \o <<Lit("&quot;")>>,
     <<Lit("subscriber"), Lit("Count"), Lit("&quot;"), Lit(":"), Lit("&quot;")>> \o
       CapDigitsCommas \o <<Lit("&quot;")>>,
     <<Lit("subscriber"), Lit("Count"), Lit("\""), Lit(":"), Lit("\"")>> \o
       CapDigitsCommas \o <<Lit("\"")>>,
     <<Lit("follower"), Lit("Count"), Lit("\""), Lit(":"), Lit("\"")>> \o
       CapDigitsCommas \o <<Lit("\"")>> >>

\* InstagramService._get_followers_from_scraping: patterns of the page content fallback
InstagramPatterns ==
  << <<Lit("\""), Lit("follower"), Lit("_count"), Lit("\""), Lit(":")>> \o CapDigits,
     <<Lit("\"edge_followed_by\":{\"count\":")>> \o CapDigits \o <<Lit("}")>>,
     CapDigitsCommas \o <<Lit(" "), Lit("follower"), Lit("s")>>,
     <<Lit("Follower"), Lit("s"), Lit("</span>"), Lit("<span class=\""),
       Rep(NotQuote, 0, Unbounded), Lit("\""), Lit(">"), Cap(NotLt, 1, Unbounded)>> >>

RECURSIVE ExtractFrom(_, _, _, _)
\* the loop "for pattern in patterns" from pattern i on; a capture that is not
\* an integer either raises ValueError (int(...) unguarded) or is skipped
ExtractFrom(patterns, text, i, unguarded) ==
  IF i > Len(patterns)
    THEN Returned(None)
    ELSE LET m == Search(patterns[i], text)
             t == RemoveCommas(m.group)
         IN IF ~m.ok THEN ExtractFrom(patterns, text, i + 1, unguarded)
            ELSE IF IsDigitText(t) THEN Returned(ToInt(t))
            ELSE IF unguarded THEN Raised("ValueError")
            ELSE ExtractFrom(patterns, text, i + 1, unguarded)

extract_followers(text) == ExtractFrom(CompanyPatterns, text, 1, TRUE)

extract_followers_from_content(text) == ExtractFrom(ProfilePatterns, text, 1, FALSE)

extract_subscribers(text) == ExtractFrom(NewsletterPatterns, text, 1, TRUE)

instagram_page_content_fallback(text) == ExtractFrom(InstagramPatterns, text, 1, FALSE)

\* page texts: up to MaxSnippets pieces of markup in any order
Snippets ==
  { <<"7">>, <<",">>, <<" ">>, <<"follower", "s">>, <<"subscriber", "s">>,
    <<"follower", "Count", "\"", ":">>, <<"x">> }

RECURSIVE Flatten(_)
Flatten(ss) == IF ss = <<>> THEN <<>> ELSE Head(ss) \o Flatten(Tail(ss))

SnippetTexts == {Flatten(ss) : ss \in UNION {[1..k -> Snippets] : k \in 0..MaxSnippets}}

\* page texts: a count written with comma thousands separators, then " followers"
SampleNumbers == {0, 7, 631, 1234, 12345, 441469, 1000000, 1234567}

DigitToken(d) == CHOOSE t \in Digits : DigitValue[t] = d

RECURSIVE Decimal(_)
Decimal(n) == IF n < 10 THEN <<DigitToken(n)>> ELSE Decimal(n \div 10) \o <<DigitToken(n % 10)>>

RECURSIVE WithSeparators(_)
WithSeparators(n) ==
  IF n < 1000
    THEN Decimal(n)
    ELSE WithSeparators(n \div 1000) \o <<",">> \o
         <<DigitToken((n % 1000) \div 100), DigitToken((n % 100) \div 10), DigitToken(n % 10)>>

CountText(n) == WithSeparators(n) \o <<" ", "follower", "s">>

CountTexts == {CountText(n) : n \in SampleNumbers}

runVars ==
  << pc, phase, calls, failing, ret, trace, last, dataVars, svcVars, submitVars, cfgVars,
     open_resources >>

\* get_company_followers hands the page content to _extract_followers
company_page_extracted ==
  /\ extracted = EmptyDict
  /\ extracted' = ("company" :> extract_followers(page_content))
  /\ UNCHANGED <<runVars, page_content, response_json, context, session_log, graphql_data,
               responses>>

\* get_followers hands the page content to _extract_followers_from_content
profile_page_extracted ==
  /\ extracted = EmptyDict
  /\ extracted' = ("profile" :> extract_followers_from_content(page_content))
  /\ UNCHANGED <<runVars, page_content, response_json, context, session_log, graphql_data,
               responses>>

\* get_subscribers hands the page content to _extract_subscribers
newsletter_page_extracted ==
  /\ extracted = EmptyDict
  /\ extracted' = ("newsletter" :> extract_subscribers(page_content))
  /\ UNCHANGED <<runVars, page_content, response_json, context, session_log, graphql_data,
               responses>>

\* _get_followers_from_scraping falls back to the patterns over the page content
instagram_page_extracted ==
  /\ extracted = EmptyDict
  /\ extracted' = ("instagram" :> instagram_page_content_fallback(page_content))
  /\ UNCHANGED <<runVars, page_content, response_json, context, session_log, graphql_data,
               responses>>

\* a page text and the extractors applied to it
InitExtract ==
  /\ pc = "profile"
  /\ phase = "call"
  /\ calls = <<>>
  /\ failing = {}
  /\ ret = Pending
  /\ trace = <<>>
  /\ last = "none"
  /\ linkedin_profile_data = Unset
  /\ linkedin_company_data = Unset
  /\ linkedin_newsletter_data = Unset
  /\ twitter_data = Unset
  /\ instagram_data = Unset
  /\ youtube_data = Unset
  /\ kit_data = Unset
  /\ attempt = 0
  /\ url_to_try = ""
  /\ results = <<>>
  /\ retry_on_failure = TRUE
  /\ step = "api"
  /\ retry_count = 0
  /\ retries = 0
  /\ max_retries = YT_DEFAULT_MAX_RETRIES
  /\ kit_stats = <<>>
  /\ form_data = EmptyDict
  /\ body = EmptyDict
  /\ form_retries = 0
  /\ followers_success = FALSE
  /\ submission_success = FALSE
  /\ posted = <<>>
  /\ sent = <<>>
  /\ maps = <<>>
  /\ instagram_max_retries = INSTAGRAM_MAX_RETRIES
  /\ credentials = Credentials
  /\ open_resources = {}
  /\ page_content \in SnippetTexts \cup CountTexts
  /\ extracted = EmptyDict
  /\ response_json = JNull
  /\ context = NoContext
  /\ session_log = <<>>
  /\ graphql_data = JNull
  /\ responses = <<>>

NextExtract ==
  \/ company_page_extracted
  \/ profile_page_extracted
  \/ newsletter_page_extracted
  \/ instagram_page_extracted

SpecExtract == InitExtract /\ [][NextExtract]_vars

\* ------------------------------------------------------ Instagram scraping
\* graphql_data["follower_count"] when the page has loaded: None when no response
\* was intercepted, else the payload of the intercepted response
GraphqlCounts == {None, 0, SampleCount("instagram"), NonIntText}

\* page.goto and page.wait_for_load_state return or raise
LoadOutcomes == {"idle", "timeout"}

\* _get_followers_from_scraping: the dict returned, with the intercepted count
\* and whether the pattern list was run
ScrapingResult(follower_count, load, text) ==
  [follower_count |-> follower_count,
   patterns_run |-> load = "idle" /\ follower_count = None,
   result |->
     CASE load # "idle" -> [success |-> FALSE, error |-> "Error scraping Instagram"]
       [] follower_count # None -> [success |-> TRUE, followers |-> follower_count]
       [] OTHER ->
            LET found == instagram_page_content_fallback(text).value
            IN IF found # None
                 THEN [success |-> TRUE, followers |-> found]
                 ELSE [success |-> FALSE, error |-> "Could not find follower count on Instagram"]]

get_followers_from_scraping ==
  /\ extracted = EmptyDict
  /\ \E follower_count \in GraphqlCounts, load \in LoadOutcomes :
       extracted' = ("scrape" :> ScrapingResult(follower_count, load, page_content))
  /\ UNCHANGED <<runVars, page_content, response_json, context, session_log, graphql_data,
               responses>>

\* a page text and one scraping call on it
InitScrape ==
  /\ pc = "profile"
  /\ phase = "call"
  /\ calls = <<>>
  /\ failing = {}
  /\ ret = Pending
  /\ trace = <<>>
  /\ last = "none"
  /\ linkedin_profile_data = Unset
  /\ linkedin_company_data = Unset
  /\ linkedin_newsletter_data = Unset
  /\ twitter_data = Unset
  /\ instagram_data = Unset
  /\ youtube_data = Unset
  /\ kit_data = Unset
  /\ attempt = 0
  /\ url_to_try = ""
  /\ results = <<>>
  /\ retry_on_failure = TRUE
  /\ step = "api"
  /\ retry_count = 0
  /\ retries = 0
  /\ max_retries = YT_DEFAULT_MAX_RETRIES
  /\ kit_stats = <<>>
  /\ form_data = EmptyDict
  /\ body = EmptyDict
  /\ form_retries = 0
  /\ followers_success = FALSE
  /\ submission_success = FALSE
  /\ posted = <<>>
  /\ sent = <<>>
  /\ maps = <<>>
  /\ instagram_max_retries = INSTAGRAM_MAX_RETRIES
  /\ credentials = Credentials
  /\ open_resources = {}
  /\ page_content \in SnippetTexts \cup CountTexts
  /\ extracted = EmptyDict
  /\ response_json = JNull
  /\ context = NoContext
  /\ session_log = <<>>
  /\ graphql_data = JNull
  /\ responses = <<>>

NextScrape == get_followers_from_scraping

SpecScrape == InitScrape /\ [][NextScrape]_vars

\* ------------------------------------------- JSON lookups (default_instagram)
\* keys and leaves of the sampled GraphQL bodies
DeepKeys == {"follower_count", "edge_followed_by", "count", "user"}

DeepLeaves == {JScalar(5), JScalar(7), JScalar(NonIntText)}

\* bodies nested up to d levels: an object of one pair, an object whose second
\* pair is "follower_count": 7, or an array of one element
RECURSIVE DeepDocs(_)
DeepDocs(d) ==
  IF d = 0 THEN DeepLeaves
  ELSE LET inner == DeepDocs(d - 1)
       IN inner
          \cup {JObject(<<JPair(k, v)>>) : k \in DeepKeys, v \in inner}
          \cup {JObject(<<JPair(k, v), JPair("follower_count", JScalar(7))>>) :
                  k \in DeepKeys \ {"follower_count"}, v \in inner}
          \cup {JArray(<<v>>) : v \in inner}

isinstance_int(v) == v.tag = "scalar" /\ v.value >= 0

HasKey_json(obj, k) == \E i \in DOMAIN obj.items : obj.items[i].key = k

ValueAt(obj, k) ==
  obj.items[CHOOSE i \in DOMAIN obj.items : obj.items[i].key = k].value

FollowerKeys == {"follower_count", "edge_followed_by"}

\* an object under a follower key that has no "count" is skipped whole: the
\* branch that recurses is an elif of the follower-key branch
RECURSIVE find_follower_count(_)
RECURSIVE find_in_items(_, _)
find_in_items(obj, i) ==
  IF i > Len(obj.items) THEN JNull
  ELSE LET key == obj.items[i].key
           value == obj.items[i].value
       IN IF key \in FollowerKeys /\ (isinstance_int(value) \/ value.tag = "object")
            THEN IF isinstance_int(value) THEN value
                 ELSE IF HasKey_json(value, "count") THEN ValueAt(value, "count")
                 ELSE find_in_items(obj, i + 1)
          ELSE IF value.tag \in {"object", "array"}
            THEN LET result == find_follower_count(value)
                 IN IF result # JNull THEN result ELSE find_in_items(obj, i + 1)
          ELSE find_in_items(obj, i + 1)

RECURSIVE find_in_list(_, _)
find_in_list(obj, i) ==
  IF i > Len(obj.items) THEN JNull
  ELSE LET result == find_follower_count(obj.items[i])
       IN IF result # JNull THEN result ELSE find_in_list(obj, i + 1)

find_follower_count(obj) ==
  CASE obj.tag = "object" -> find_in_items(obj, 1)
    [] obj.tag = "array" -> find_in_list(obj, 1)
    [] OTHER -> JNull

deep_search ==
  /\ extracted = EmptyDict
  /\ extracted' = ("deep" :> find_follower_count(response_json))
  /\ UNCHANGED <<runVars, page_content, response_json, context, session_log, graphql_data,
               responses>>

\* a parsed GraphQL body and the deep search in it
InitDeepSearch ==
  /\ pc = "profile"
  /\ phase = "call"
  /\ calls = <<>>
  /\ failing = {}
  /\ ret = Pending
  /\ trace = <<>>
  /\ last = "none"
  /\ linkedin_profile_data = Unset
  /\ linkedin_company_data = Unset
  /\ linkedin_newsletter_data = Unset
  /\ twitter_data = Unset
  /\ instagram_data = Unset
  /\ youtube_data = Unset
  /\ kit_data = Unset
  /\ attempt = 0
  /\ url_to_try = ""
  /\ results = <<>>
  /\ retry_on_failure = TRUE
  /\ step = "api"
  /\ retry_count = 0
  /\ retries = 0
  /\ max_retries = YT_DEFAULT_MAX_RETRIES
  /\ kit_stats = <<>>
  /\ form_data = EmptyDict
  /\ body = EmptyDict
  /\ form_retries = 0
  /\ followers_success = FALSE
  /\ submission_success = FALSE
  /\ posted = <<>>
  /\ sent = <<>>
  /\ maps = <<>>
  /\ instagram_max_retries = INSTAGRAM_MAX_RETRIES
  /\ credentials = Credentials
  /\ open_resources = {}
  /\ page_content = <<>>
  /\ extracted = EmptyDict
  /\ response_json \in DeepDocs(MaxDepth)
  /\ context = NoContext
  /\ session_log = <<>>
  /\ graphql_data = JNull
  /\ responses = <<>>

NextDeepSearch == deep_search

SpecDeepSearch == InitDeepSearch /\ [][NextDeepSearch]_vars

\* the key candidates of _get_followers_from_api, each split at the dots
possible_keys ==
  << <<"user_followers">>,
     <<"followers">>,
     <<"follower_count">>,
     <<"data", "user", "edge_followed_by", "count">>,
     <<"graphql", "user", "edge_followed_by", "count">> >>

ApiLeaves == {JScalar(5), JScalar(7), JNull, JScalar(NonIntText)}

\* what a sampled body stores under path[i]: a leaf at the end of the path,
\* before it a non-container, an array, an object without the next key or an
\* object holding the next key
RECURSIVE ValuesUnder(_, _)
ValuesUnder(path, i) ==
  IF i = Len(path) THEN ApiLeaves
  ELSE {JScalar(5), JNull, JObject(<<>>), JArray(<<JScalar(5)>>)}
       \cup {JObject(<<JPair(path[i + 1], v)>>) : v \in ValuesUnder(path, i + 1)}

ApiEntries ==
  UNION {{JPair(possible_keys[c][1], v) : v \in ValuesUnder(possible_keys[c], 1)} :
           c \in DOMAIN possible_keys}

RECURSIVE ApiPairSeqs(_)
ApiPairSeqs(n) ==
  IF n = 0 THEN {<<>>}
  ELSE LET shorter == ApiPairSeqs(n - 1)
       IN shorter
          \cup {Append(s, e) : s \in {t \in shorter : Len(t) = n - 1},
                               e \in ApiEntries}

DistinctKeys(pairs) ==
  \A i, j \in DOMAIN pairs : pairs[i].key = pairs[j].key => i = j

\* bodies json.loads can give: an object of up to n entries, or no object
ApiBodies(n) ==
  {JObject(pairs) : pairs \in {s \in ApiPairSeqs(n) : DistinctKeys(s)}}
    \cup {JScalar(5), JScalar(NonIntText), JNull, JArray(<<JScalar(5)>>)}

\* temp_data[k]
Subscript(temp_data, k) ==
  IF temp_data.tag # "object" THEN Raised("TypeError")
  ELSE IF HasKey_json(temp_data, k) THEN Returned(ValueAt(temp_data, k))
  ELSE Raised("KeyError")

\* only a missing key moves on to the next candidate
SoftErrorsKeyOnly == {"KeyError"}

\* the exceptions of a dotted path that move on to the next candidate
SoftErrors == {"KeyError", "TypeError"}

RECURSIVE ResolvePath(_, _, _)
ResolvePath(temp_data, keys, i) ==
  IF i > Len(keys) THEN Returned(temp_data)
  ELSE LET next == Subscript(temp_data, keys[i])
       IN IF next.kind = "raise" THEN next
          ELSE ResolvePath(next.value, keys, i + 1)

\* `key in data` raises for a body that is a number or null
ContainsRaises(data) ==
  data.tag = "null" \/ (data.tag = "scalar" /\ data.value >= 0)

\* the loop over possible_keys from candidate c on: the value it breaks with,
\* None when no candidate resolves, or the exception that leaves the loop
RECURSIVE TryCandidates(_, _)
TryCandidates(data, c) ==
  IF c > Len(possible_keys) THEN Returned(JNull)
  ELSE LET keys == possible_keys[c]
       IN IF Len(keys) > 1
            THEN LET r == ResolvePath(data, keys, 1)
                 IN IF r.kind = "raise"
                      THEN IF r.error \in SoftErrors THEN TryCandidates(data, c + 1)
                           ELSE r
                    ELSE IF r.value # JNull THEN r
                    ELSE TryCandidates(data, c + 1)
          ELSE IF ContainsRaises(data) THEN Raised("TypeError")
          ELSE IF data.tag = "object" /\ HasKey_json(data, keys[1])
                  /\ ValueAt(data, keys[1]) # JNull
            THEN Returned(ValueAt(data, keys[1]))
          ELSE TryCandidates(data, c + 1)

\* str(followers_count).replace(',', '').isdigit()
isdigit(followers_count) == isinstance_int(followers_count)

get_followers_from_api(data) ==
  LET tried == TryCandidates(data, 1)
      followers_count == IF tried.kind = "raise" THEN JNull ELSE tried.value
  IN [followers_count |-> followers_count,
      result |->
        CASE tried.kind = "raise" ->
               [success |-> FALSE, error |-> "Unexpected error when fetching from API"]
          [] followers_count # JNull /\ isdigit(followers_count) ->
               [success |-> TRUE, followers |-> followers_count.value]
          [] OTHER ->
               [success |-> FALSE, error |-> "Invalid follower count from API"]]

api_lookup ==
  /\ extracted = EmptyDict
  /\ extracted' = ("api" :> get_followers_from_api(response_json))
  /\ UNCHANGED <<runVars, page_content, response_json, context, session_log, graphql_data,
               responses>>

\* a parsed API body and the candidate lookup in it
InitApiKeys ==
  /\ pc = "profile"
  /\ phase = "call"
  /\ calls = <<>>
  /\ failing = {}
  /\ ret = Pending
  /\ trace = <<>>
  /\ last = "none"
  /\ linkedin_profile_data = Unset
  /\ linkedin_company_data = Unset
  /\ linkedin_newsletter_data = Unset
  /\ twitter_data = Unset
  /\ instagram_data = Unset
  /\ youtube_data = Unset
  /\ kit_data = Unset
  /\ attempt = 0
  /\ url_to_try = ""
  /\ results = <<>>
  /\ retry_on_failure = TRUE
  /\ step = "api"
  /\ retry_count = 0
  /\ retries = 0
  /\ max_retries = YT_DEFAULT_MAX_RETRIES
  /\ kit_stats = <<>>
  /\ form_data = EmptyDict
  /\ body = EmptyDict
  /\ form_retries = 0
  /\ followers_success = FALSE
  /\ submission_success = FALSE
  /\ posted = <<>>
  /\ sent = <<>>
  /\ maps = <<>>
  /\ instagram_max_retries = INSTAGRAM_MAX_RETRIES
  /\ credentials = Credentials
  /\ open_resources = {}
  /\ page_content = <<>>
  /\ extracted = EmptyDict
  /\ response_json \in ApiBodies(MaxPairs)
  /\ context = NoContext
  /\ session_log = <<>>
  /\ graphql_data = JNull
  /\ responses = <<>>

NextApiKeys == api_lookup

SpecApiKeys == InitApiKeys /\ [][NextApiKeys]_vars

\* ------------------------------------------- LinkedIn profile: the sessions
\* an attempt as in ProfileOutcomes, or one whose initialize_driver raises
ProfileSessionOutcomes == {"found", "signin", "nocount", "exception", "init_exception"}

\* driver.initialize_driver returned a context; drivers and contexts are named
\* by the attempt that created them
NewContext(c, d) == [op |-> "new_context", context |-> c, driver |-> d]

\* driver.close(context)
CloseCall(c, d) == [op |-> "close", context |-> c, driver |-> d]

\* the except clause closes `context` whenever the name is bound
BoundInLocals(c) == c # NoContext

\* one iteration of the while loop of get_followers: the driver it creates, the
\* context it binds and the close calls it makes
get_followers_sessions ==
  /\ pc = "profile"
  /\ phase = "run"
  /\ attempt < PROFILE_MAX_ATTEMPTS
  /\ attempt' = attempt + 1
  /\ \E out \in ProfileSessionOutcomes :
       /\ last' = out
       /\ IF out = "init_exception"
            THEN /\ context' = context
                 /\ session_log' = IF BoundInLocals(context)
                                     THEN Append(session_log, CloseCall(context, attempt'))
                                     ELSE session_log
            ELSE /\ context' = attempt'
                 /\ session_log' = session_log \o <<NewContext(attempt', attempt'),
                                                     CloseCall(attempt', attempt')>>
       /\ CASE out = "found" ->
                 /\ ret' = Returned(get_profile_data(SampleCount("profile")))
                 /\ phase' = "exit"
            [] out \in {"signin", "nocount"} ->
                 IF attempt' < PROFILE_MAX_ATTEMPTS
                   THEN ret' = ret /\ phase' = phase
                   ELSE ret' = Returned(get_profile_data(None)) /\ phase' = "exit"
            [] OTHER ->
                 IF attempt' = PROFILE_MAX_ATTEMPTS
                   THEN ret' = Raised("ScrapingError") /\ phase' = "exit"
                   ELSE ret' = ret /\ phase' = phase
  /\ UNCHANGED <<cfgVars, page_content, extracted, response_json, graphql_data, responses,
                 open_resources, pc, calls, failing, trace, url_to_try, dataVars, results, retry_on_failure, step,
                 retry_count, retries, max_retries, kit_stats, submitVars>>

\* one call of get_followers
InitProfileSessions ==
  /\ pc = "profile"
  /\ phase = "run"
  /\ calls = <<>>
  /\ failing = {}
  /\ ret = Pending
  /\ trace = <<>>
  /\ last = "none"
  /\ linkedin_profile_data = Unset
  /\ linkedin_company_data = Unset
  /\ linkedin_newsletter_data = Unset
  /\ twitter_data = Unset
  /\ instagram_data = Unset
  /\ youtube_data = Unset
  /\ kit_data = Unset
  /\ attempt = 0
  /\ url_to_try = ""
  /\ results = <<>>
  /\ retry_on_failure = TRUE
  /\ step = "api"
  /\ retry_count = 0
  /\ retries = 0
  /\ max_retries = YT_DEFAULT_MAX_RETRIES
  /\ kit_stats = <<>>
  /\ form_data = EmptyDict
  /\ body = EmptyDict
  /\ form_retries = 0
  /\ followers_success = FALSE
  /\ submission_success = FALSE
  /\ posted = <<>>
  /\ sent = <<>>
  /\ maps = <<>>
  /\ instagram_max_retries = INSTAGRAM_MAX_RETRIES
  /\ credentials = Credentials
  /\ open_resources = {}
  /\ page_content = <<>>
  /\ extracted = EmptyDict
  /\ response_json = JNull
  /\ context = NoContext
  /\ session_log = <<>>
  /\ graphql_data = JNull
  /\ responses = <<>>

NextProfileSessions == get_followers_sessions

SpecProfileSessions == InitProfileSessions /\ [][NextProfileSessions]_vars

\* ------------------------------------------ Instagram scraping: interception
\* the body {"data": {"user": user_data}}
UserBody(user_data) == JObject(<<JPair("data", JObject(<<JPair("user", user_data)>>))>>)

\* a body response.json() cannot parse
InvalidJson == [tag |-> "invalid"]

ResponseBodies ==
  {UserBody(JObject(<<JPair("follower_count", v)>>)) : v \in {JScalar(5), JScalar(7), JNull}}
    \cup {UserBody(JObject(<<>>)), UserBody(JNull), UserBody(JScalar(NonIntText)),
          JObject(<<JPair("data", JObject(<<>>))>>), JObject(<<JPair("data", JNull)>>),
          JObject(<<>>), JArray(<<>>), InvalidJson}

\* the responses a page load delivers: graphql/query responses of status 200
\* with every sampled body, and responses of another status or URL that carry
\* a count
Responses ==
  {[graphql |-> TRUE, status |-> 200, body |-> b] : b \in ResponseBodies}
    \cup {[graphql |-> TRUE, status |-> 404,
           body |-> UserBody(JObject(<<JPair("follower_count", JScalar(7))>>))],
          [graphql |-> FALSE, status |-> 200,
           body |-> UserBody(JObject(<<JPair("follower_count", JScalar(7))>>))]}

\* `k in v`: membership for an object, an array or a text, TypeError otherwise
Contains(v, k) ==
  CASE v.tag = "object" -> Returned(HasKey_json(v, k))
    [] v.tag = "array" -> Returned(FALSE)
    [] v.tag = "scalar" /\ v.value = NonIntText -> Returned(FALSE)
    [] OTHER -> Raised("TypeError")

\* any status is handled
StatusAny(response) == TRUE

\* response.status == 200
StatusOk(response) == response.status = 200

\* the try block of handle_response: the value graphql_data["follower_count"]
\* has after it, for the value g it had before
ParseResponse(g, parsed) ==
  IF parsed = InvalidJson THEN g
  ELSE LET has_data == Contains(parsed, "data")
       IN IF has_data.kind = "raise" \/ ~has_data.value THEN g
          ELSE LET data == ValueAt(parsed, "data")
                   has_user == Contains(data, "user")
               IN IF has_user.kind = "raise" \/ ~has_user.value THEN g
                  ELSE LET user_data == ValueAt(data, "user")
                           has_count == Contains(user_data, "follower_count")
                       IN IF has_count.kind = "raise" \/ ~has_count.value THEN g
                          ELSE ValueAt(user_data, "follower_count")

HandleResponse(g, response) ==
  IF response.graphql /\ StatusOk(response) THEN ParseResponse(g, response.body) ELSE g

\* a JSON null or scalar as the Python value it is parsed to
PyValue(v) == IF v.tag = "null" THEN None ELSE v.value

\* the callback registered with page.on("response", ...), called for one response
handle_response ==
  /\ extracted = EmptyDict
  /\ Len(responses) < MaxResponses
  /\ \E response \in Responses :
       /\ responses' = Append(responses, response)
       /\ graphql_data' = HandleResponse(graphql_data, response)
  /\ UNCHANGED <<runVars, page_content, extracted, response_json, context, session_log>>

\* the rest of _get_followers_from_scraping once the responses have been handled
scraping_check ==
  /\ extracted = EmptyDict
  /\ \E load \in LoadOutcomes :
       extracted' = ("scrape" :> ScrapingResult(PyValue(graphql_data), load, page_content))
  /\ UNCHANGED <<runVars, page_content, response_json, context, session_log, graphql_data,
                 responses>>

\* one scraping call: the responses of the page load, then the check
InitIntercept ==
  /\ pc = "instagram"
  /\ phase = "run"
  /\ calls = <<>>
  /\ failing = {}
  /\ ret = Pending
  /\ trace = <<>>
  /\ last = "none"
  /\ linkedin_profile_data = Unset
  /\ linkedin_company_data = Unset
  /\ linkedin_newsletter_data = Unset
  /\ twitter_data = Unset
  /\ instagram_data = Unset
  /\ youtube_data = Unset
  /\ kit_data = Unset
  /\ attempt = 0
  /\ url_to_try = ""
  /\ results = <<>>
  /\ retry_on_failure = TRUE
  /\ step = "scrape"
  /\ retry_count = 0
  /\ retries = 0
  /\ max_retries = YT_DEFAULT_MAX_RETRIES
  /\ kit_stats = <<>>
  /\ form_data = EmptyDict
  /\ body = EmptyDict
  /\ form_retries = 0
  /\ followers_success = FALSE
  /\ submission_success = FALSE
  /\ posted = <<>>
  /\ sent = <<>>
  /\ maps = <<>>
  /\ instagram_max_retries = INSTAGRAM_MAX_RETRIES
  /\ credentials = Credentials
  /\ open_resources = {}
  /\ page_content = <<>>
  /\ extracted = EmptyDict
  /\ response_json = JNull
  /\ context = NoContext
  /\ session_log = <<>>
  /\ graphql_data = JNull
  /\ responses = <<>>

NextIntercept ==
  \/ handle_response
  \/ scraping_check

SpecIntercept == InitIntercept /\ [][NextIntercept]_vars

\* ------------------------------------------------------------- properties
CollectorSet == {Collectors[i] : i \in DOMAIN Collectors}

DataOf(c) ==
  CASE c = "profile" -> linkedin_profile_data
    [] c = "company" -> linkedin_company_data
    [] c = "newsletter" -> linkedin_newsletter_data
    [] c = "twitter" -> twitter_data
    [] c = "instagram" -> instagram_data
    [] c = "youtube" -> youtube_data
    [] c = "kit" -> kit_data

Submitting == pc \in {"submit_followers", "submit_kit", "done"}

RequestsIn(t) == {i \in DOMAIN t : t[i].ev = "request"}

WaitsIn(t) == {i \in DOMAIN t : t[i].ev = "wait"}

IsWait(e) == e.ev = "wait"

WaitEvents(t) == SelectSeq(t, IsWait)

RECURSIVE SumSecs(_)
SumSecs(t) == IF t = <<>> THEN 0 ELSE Head(t).secs + SumSecs(Tail(t))

FailureOutcomes ==
  {"signin", "nocount", "exception", "no_match", "rate_limit", "http_error", "no_metrics",
   "network_error", "unexpected", "fail", "quota", "no_items"}

HasKey(d, k) == k \in DOMAIN d

\* a dict carries the metric under key k as "Not Found", with the error description e
NotFoundWith(d, k, e) == HasKey(d, k) /\ d[k] = NotFound /\ HasKey(d, "error") /\ d.error = e

\* the value c's collector hands over is a placeholder for every target of c
IsPlaceholder(c, d, e) ==
  CASE c = "company" ->
         /\ DOMAIN d = 1..4
         /\ \A i \in 1..4 : d[i].name = CompanyNames[i] /\ NotFoundWith(d[i], "followers", e)
    [] c = "kit" ->
         /\ DOMAIN d = {"daily", "weekly", "monthly"}
         /\ \A r \in DOMAIN d : NotFoundWith(d[r], "subscribers", e)
    [] c = "youtube" -> NotFoundWith(d, "subscribers", e) /\ NotFoundWith(d, "views", e)
    [] c = "newsletter" -> NotFoundWith(d, "subscribers", e)
    [] OTHER -> NotFoundWith(d, "followers", e)

\* a result is present for every configured target
HasEveryTarget ==
  /\ HasKey(linkedin_profile_data, "followers")
  /\ DOMAIN linkedin_company_data = 1..4
  /\ \A i \in 1..4 :
       /\ linkedin_company_data[i].name = CompanyNames[i]
       /\ HasKey(linkedin_company_data[i], "followers")
  /\ HasKey(linkedin_newsletter_data, "subscribers")
  /\ HasKey(twitter_data, "followers")
  /\ HasKey(instagram_data, "followers")
  /\ HasKey(youtube_data, "subscribers") /\ HasKey(youtube_data, "views")
  /\ DOMAIN kit_data = {"daily", "weekly", "monthly"}
  /\ \A r \in {"daily", "weekly", "monthly"} : HasKey(kit_data[r], "subscribers")

C1_Complete == Submitting => calls = Collectors /\ HasEveryTarget

C1_Step ==
  \A c \in CollectorSet :
    (pc = c /\ phase = "exit" /\ ret.kind = "raise" /\ pc' # c)
      => IsPlaceholder(c, DataOf(c)', ret.error)

\* C1: when the service of a collector raises (at construction or during the
\* acquisition) the collector hands over a placeholder with "Not Found" and the
\* error description for each of its targets, all seven collectors are invoked
\* in the fixed order, and submit_data gets a result for every target.
C1_Resilience == []C1_Complete /\ [][C1_Step]_vars

C1_Witness ==
  /\ pc = "submit_followers"
  /\ phase = "run"
  /\ IsPlaceholder("company", linkedin_company_data, ConstructionError)

\* the metric of the result of c's entry point, for the target handled last, is "Not Found"
MetricsNotFound(c, v) ==
  CASE c = "company" -> v[Len(v)].followers = NotFound
    [] c = "kit" -> v["monthly"].subscribers = NotFound
    [] c = "youtube" -> v.subscribers = NotFound /\ v.views = NotFound
    [] c = "newsletter" -> v.subscribers = NotFound
    [] OTHER -> v.followers = NotFound

EntryPointFailed == pc \in CollectorSet /\ phase = "exit" /\ last \in FailureOutcomes

\* the three failures that the entry points are written to raise on
DocumentedRaise ==
  \/ pc = "profile" /\ last = "exception"
  \/ pc = "newsletter" /\ last = "exception"
  \/ pc = "twitter" /\ last \in {"rate_limit", "http_error"}

CompanyKeys == {CompanyNames[i] : i \in DOMAIN CompanyNames}

\* the company list is the one get_all_company_data returns
FromCompanyService ==
  /\ DOMAIN linkedin_company_data = 1..4
  /\ \A i \in 1..4 : linkedin_company_data[i].name = CompanyNames[i]

FollowersFormBuilt == pc = "submit_followers" /\ phase = "run"

\* C3: with three companies carrying an integer and one "Not Found", the
\* followers form map has the four company keys, each with the followers value
\* of the result for that company.
C3_CompanyValues ==
  ( /\ FollowersFormBuilt
    /\ FromCompanyService
    /\ Cardinality({i \in 1..4 : IsInteger(linkedin_company_data[i].followers)}) = 3
    /\ Cardinality({i \in 1..4 : linkedin_company_data[i].followers = NotFound}) = 1 )
  => \A i \in 1..4 :
       /\ CompanyNames[i] \in DOMAIN form_data
       /\ form_data[CompanyNames[i]] = linkedin_company_data[i].followers

\* C4: a company name looked up by submit_followers_data that has no entry in the
\* company list still has its key in the form map, with the value "Not Found".
C4_AbsentIsNotFound ==
  FollowersFormBuilt =>
    \A key \in CompanyKeys :
      (\A i \in DOMAIN linkedin_company_data :
          linkedin_company_data[i].name # CompanyLookupName(key))
        => key \in DOMAIN form_data /\ form_data[key] = NotFound

FormFieldsOf(p) ==
  IF p = "submit_followers" THEN DOMAIN FOLLOWERS_FORM_FIELDS ELSE DOMAIN KIT_STATS_FORM_FIELDS

\* C5: every key of a form map that has a form-field mapping carries an integer
\* or "Not Found", whatever the acquirers did.
C5_CompleteRow ==
  (pc \in {"submit_followers", "submit_kit"} /\ phase = "run") =>
    \A key \in FormFieldsOf(pc) :
      /\ key \in DOMAIN form_data
      /\ IsInteger(form_data[key]) \/ form_data[key] = NotFound

\* C6: once submit_data is over, a POST to the Kit-stats form has been issued,
\* however the followers submission ended.
C6_KitAttempted ==
  pc = "done" => \E i \in DOMAIN posted : posted[i] = "kit"

\* C7: collectors are invoked in the fixed order, each after the one before it
\* has returned; no POST is issued before all seven have returned; every POST
\* to the followers form comes before every POST to the Kit-stats form.
C7_Sequential ==
  /\ Len(calls) <= Len(Collectors)
  /\ calls = SubSeq(Collectors, 1, Len(calls))
  /\ \A k \in 1..Len(calls) : k < Len(calls) => DataOf(Collectors[k]) # Unset
  /\ \A c \in CollectorSet :
       DataOf(c) # Unset => \E k \in 1..Len(calls) : calls[k] = c
  /\ posted # <<>> => Len(calls) = Len(Collectors) /\ \A c \in CollectorSet : DataOf(c) # Unset
  /\ \A i, j \in DOMAIN posted : i < j => ~(posted[i] = "kit" /\ posted[j] = "followers")
  /\ posted # <<>> => posted[1] = "followers"

C7_Witness == pc = "done" /\ posted = <<"followers", "followers", "kit">>

\* C8: get_followers issues at most two requests and at most one wait, of
\* exactly 900 seconds, between the first and the second request; nothing
\* follows the second request.
C8_SingleCooldown ==
  pc = "twitter" =>
    /\ Cardinality(RequestsIn(trace)) <= 2
    /\ Cardinality(WaitsIn(trace)) <= 1
    /\ \A w \in WaitsIn(trace) :
         /\ trace[w].secs = TWITTER_COOLDOWN
         /\ \E r \in RequestsIn(trace) : r < w
         /\ \A r1, r2 \in RequestsIn(trace) : r1 < r2 => r1 < w /\ w < r2
    /\ Cardinality(RequestsIn(trace)) = 2 => Cardinality(WaitsIn(trace)) = 1
    /\ (phase = "run" /\ trace # <<>>) => trace[Len(trace)] = Wait(TWITTER_COOLDOWN)

C8_Witness ==
  /\ pc = "twitter"
  /\ phase = "exit"
  /\ last = "rate_limit"
  /\ Cardinality(RequestsIn(trace)) = 2
  /\ SumSecs(WaitEvents(trace)) = 900

ApiCollectors == {"twitter", "youtube", "kit"}

\* C9 as stated: after a rate-limit signal, any further request to that API is
\* preceded by a wait of at least 60 seconds.
C9_LongCooldown ==
  pc \in ApiCollectors =>
    \A i, j \in DOMAIN trace :
      (i < j /\ trace[i] = RateLimitSignal /\ trace[j] = Request)
        => \E k \in DOMAIN trace : i < k /\ k < j /\ IsWait(trace[k]) /\ trace[k].secs >= 60

\* the number of requests among the first i events of the trace
RequestsUpTo(i) == Cardinality({r \in RequestsIn(trace) : r <= i})

\* C9 amended: after Twitter HTTP 429 the one further request is preceded by a
\* wait of 900 seconds; after Kit HTTP 429 no further request is made by that
\* get_all_stats call; after a YouTube quotaExceeded response that is not the
\* last attempt, the next request is preceded by the exponential backoff wait
\* of 2^retries seconds (2, 4, 8, ...), which is shorter than 60 seconds.
C9_Amended ==
  /\ pc = "twitter" =>
       \A i, j \in DOMAIN trace :
         (i < j /\ trace[i] = RateLimitSignal /\ trace[j] = Request)
           => \E k \in DOMAIN trace : i < k /\ k < j /\ trace[k] = Wait(TWITTER_COOLDOWN)
  /\ pc = "kit" =>
       \A i, j \in DOMAIN trace : (i < j /\ trace[i] = RateLimitSignal) => trace[j] # Request
  /\ pc = "youtube" =>
       \A i \in DOMAIN trace :
         (trace[i] = RateLimitSignal /\ i < Len(trace))
           => /\ trace[i + 1] = Wait(Pow2(RequestsUpTo(i)))
              /\ trace[i + 1].secs < 60
              /\ i + 2 <= Len(trace) => trace[i + 2] = Request

C9_Witness ==
  /\ pc = "youtube"
  /\ \E i \in DOMAIN trace :
       /\ trace[i] = RateLimitSignal
       /\ i + 2 <= Len(trace)
       /\ trace[i + 1] = Wait(2)
       /\ trace[i + 2] = Request

ScrapesIn(t) == {i \in DOMAIN t : t[i] = Scrape}

\* the i-th event of the schedule: API call, then per round k = 0, 1, ... a
\* scrape, a wait of 120 * 2^k seconds and an API retry
InstagramSchedule(i) ==
  IF i = 1 THEN Request
  ELSE LET k == (i - 2) \div 3
           r == (i - 2) % 3
       IN CASE r = 0 -> Scrape
            [] r = 1 -> Wait(120 * Pow2(k))
            [] r = 2 -> Request

InstagramApiSucceeded == last \in {"ok", "ok_text"}

InstagramScrapeSucceeded == last \in {"graphql_int", "graphql_text", "markup"}

\* C11: get_followers calls the API first and scrapes only after an API failure;
\* round k is a scrape, a wait of 120 * 2^k seconds and an API retry, in this
\* order; the first step that succeeds ends the call and its value is returned
\* with the source tag of that step.
C11_Order ==
  pc = "instagram" =>
    /\ \A i \in DOMAIN trace : trace[i] = InstagramSchedule(i)
    /\ Cardinality(ScrapesIn(trace)) <= instagram_max_retries
    /\ InstagramApiSucceeded =>
         /\ phase = "exit"
         /\ trace[Len(trace)] = Request
         /\ ret = Returned([followers |-> ApiFollowers(last),
                            source |-> IF Len(trace) = 1 THEN "third-party-api"
                                                         ELSE "third-party-api-retry"])
    /\ InstagramScrapeSucceeded =>
         /\ phase = "exit"
         /\ trace[Len(trace)] = Scrape
         /\ ret = Returned([followers |-> ScrapeFollowers(last), source |-> "direct-scraping"])
    /\ (phase = "run" /\ trace # <<>>) => last \in {"fail", "no_match", "exception"}

C11_Witness ==
  /\ pc = "instagram"
  /\ phase = "exit"
  /\ Len(trace) = 7
  /\ ret = Returned([followers |-> SampleCount("instagram"), source |-> "third-party-api-retry"])

\* C12: when the API and scraping fail on every attempt, get_followers ends
\* after max_retries + 1 API calls and max_retries scrapes, having waited
\* 120 * (2^max_retries - 1) seconds in total, and returns followers =
\* "Not Found" with an error and no source tag.
C12_Exhaustion ==
  (pc = "instagram" /\ phase = "exit" /\ last = "fail") =>
    /\ Cardinality(RequestsIn(trace)) = instagram_max_retries + 1
    /\ Cardinality(ScrapesIn(trace)) = instagram_max_retries
    /\ WaitEvents(trace) = [k \in 1..instagram_max_retries |-> Wait(120 * Pow2(k - 1))]
    /\ SumSecs(WaitEvents(trace)) = 120 * (Pow2(instagram_max_retries) - 1)
    /\ ret.kind = "return"
    /\ DOMAIN ret.value = {"followers", "error"}
    /\ ret.value.followers = NotFound

C12_Witness ==
  /\ pc = "instagram"
  /\ phase = "exit"
  /\ last = "fail"
  /\ instagram_max_retries = 3
  /\ SumSecs(WaitEvents(trace)) = 840
  /\ ret.value.followers = NotFound

\* C13: a result of get_followers that has a source tag carries an integer
\* followers value, and one without a source tag carries "Not Found".
C13_IntegerOnSuccess ==
  (pc = "instagram" /\ phase = "exit" /\ ret.kind = "return") =>
    IF HasKey(ret.value, "source")
      THEN IsInteger(ret.value.followers)
      ELSE ret.value.followers = NotFound

PatternsOf(name) ==
  CASE name = "company" -> CompanyPatterns
    [] name = "profile" -> ProfilePatterns
    [] name = "newsletter" -> NewsletterPatterns
    [] name = "instagram" -> InstagramPatterns

\* pattern i matches the text
Matches(patterns, text, i) == Search(patterns[i], text).ok

\* pattern i matches the text and its capture is an integer once commas are removed
Qualifies(patterns, text, i) ==
  /\ Matches(patterns, text, i)
  /\ IsDigitText(RemoveCommas(Search(patterns[i], text).group))

\* the integer captured by the lowest-index qualifying pattern, not-found if there is none
FirstQualifying(patterns, text) ==
  LET qs == {i \in DOMAIN patterns : Qualifies(patterns, text, i)}
  IN IF qs = {}
       THEN Returned(None)
       ELSE LET i == CHOOSE x \in qs : \A y \in qs : x <= y
            IN Returned(ToInt(RemoveCommas(Search(patterns[i], text).group)))

\* C14: each markup extractor returns the integer captured by the lowest-index
\* pattern that matches and whose capture parses as an integer, and not-found
\* only if no pattern qualifies.
C14_FirstQualifying ==
  \A name \in DOMAIN extracted :
    extracted[name] = FirstQualifying(PatternsOf(name), page_content)

\* C15: when a pattern matches but its capture is not an integer, the extractor
\* does not raise, and it still returns the value of a qualifying pattern.
C15_InvalidCaptureSkipped ==
  \A name \in DOMAIN extracted :
    (\E i \in DOMAIN PatternsOf(name) :
        /\ Matches(PatternsOf(name), page_content, i)
        /\ ~Qualifies(PatternsOf(name), page_content, i))
      => /\ extracted[name].kind = "return"
         /\ (\E j \in DOMAIN PatternsOf(name) : Qualifies(PatternsOf(name), page_content, j))
              => IsInteger(extracted[name].value)

\* C16: for a count n written with comma thousands separators and followed by
\* " followers", the company and profile extractors return n; a text without
\* digits yields not-found.
C16_Thousands ==
  \A name \in DOMAIN extracted \cap {"company", "profile"} :
    /\ \A n \in SampleNumbers : page_content = CountText(n) => extracted[name] = Returned(n)
    /\ (\A i \in DOMAIN page_content : page_content[i] \notin Digits)
         => extracted[name] = Returned(None)

\* the entries of results follow the configured companies in order, each with
\* an integer or "Not Found", and the latest entry reflects what its scrape did
C17_Results ==
  (pc = "company" /\ phase \in {"run", "exit"}) =>
    /\ Len(results) <= Len(CompanyNames)
    /\ \A i \in DOMAIN results :
         /\ results[i].name = CompanyNames[i]
         /\ IsInteger(results[i].followers) \/ results[i].followers = NotFound
         /\ HasKey(results[i], "error") => results[i].followers = NotFound
    /\ (results # <<>> /\ last = "exception") =>
         /\ results[Len(results)].followers = NotFound
         /\ HasKey(results[Len(results)], "error")
    /\ (results # <<>> /\ last = "found") =>
         /\ IsInteger(results[Len(results)].followers)
         /\ ~HasKey(results[Len(results)], "error")
    /\ (phase = "run") => Len(results) < Len(CompanyNames)
    /\ (phase = "exit" /\ last # "none") =>
         /\ ret = Returned(results)
         /\ Len(results) = Len(CompanyNames)

\* a step of get_all_company_data appends one entry and leaves the earlier ones alone
C17_Step ==
  (pc = "company" /\ phase = "run") =>
    /\ Len(results') = Len(results) + 1
    /\ SubSeq(results', 1, Len(results)) = results

\* C17: get_all_company_data returns one result per configured company, in
\* configuration order, each with an integer or "Not Found"; an exception while
\* scraping one company gives a "Not Found" result with an error for that
\* company only, and the remaining companies are still processed.
C17_Isolation == []C17_Results /\ [][C17_Step]_vars

C17_Witness ==
  /\ pc = "company"
  /\ phase = "exit"
  /\ ret.kind = "return"
  /\ Len(ret.value) = 4
  /\ HasKey(ret.value[2], "error")
  /\ ~HasKey(ret.value[1], "error")
  /\ IsInteger(ret.value[3].followers)
  /\ ~HasKey(ret.value[4], "error")

\* a scraping call of the running collector has returned or raised
ScrapingCallEnded ==
  \/ pc \in {"profile", "company", "newsletter"} /\ last # "none"
  \/ pc = "instagram" /\ last \in InstagramScrapeOutcomes

\* C18: when a scraping call has returned or raised, every browser resource it
\* opened (context, browser, playwright handle) has been released.
C18_Released == ScrapingCallEnded => open_resources = {}

\* C19: get_all_stats issues the daily, weekly and monthly pulls whatever the
\* other pulls did, a failed pull gives "Not Found" for its own time range only,
\* and the counters of every successful pull appear unchanged in the result.
C19_IndependentPulls ==
  (pc = "kit" /\ phase = "exit" /\ last # "none") =>
    /\ ret.kind = "return"
    /\ Cardinality(RequestsIn(trace)) = Len(KitRanges)
    /\ \A i \in DOMAIN kit_stats :
         ~HasKey(kit_stats[i], "error") => ret.value[KitRanges[i]] = kit_stats[i]

\* C20: with a required credential or identifier missing, the API acquirer
\* issues no request and performs no wait, and reports "Not Found".
C20_FailFast ==
  \A svc \in ApiCollectors :
    (pc = svc /\ ~Authorized(svc)) =>
      /\ trace = <<>>
      /\ (phase = "exit" /\ ret.kind = "return") => MetricsNotFound(svc, ret.value)

\* C21: submit_data returns True, with no further POST, as soon as a POST
\* response has any 2xx status code.
C21_Any2xx ==
  (pc \in {"submit_followers", "submit_kit"} /\ last \in {"200", "2xx"})
    => phase = "exit" /\ ret = Returned(TRUE)

\* the POST outcomes submit_data takes as failures to retry
PostFailures == {"2xx", "non2xx", "request_error"}

InSubmitData == pc \in {"submit_followers", "submit_kit"} /\ phase \in {"run", "exit"}

\* C22 as stated: with max_retries = 3 and every POST failing, at most 3 POSTs
\* are issued in total.
C22_ThreeAttempts == InSubmitData => Cardinality(RequestsIn(trace)) <= 3

\* C22: with max_retries = 3 and every POST failing, submit_data issues at
\* most max_retries + 1 = 4 POSTs, waits 2, 4, 8 seconds between consecutive
\* POSTs and none after the last, and then returns False without raising.
C22_Amended ==
  InSubmitData =>
    /\ Cardinality(RequestsIn(trace)) <= FORM_MAX_RETRIES + 1
    /\ \A i \in DOMAIN trace :
         trace[i] = IF i % 2 = 1 THEN Request ELSE Wait(Pow2(i \div 2))
    /\ (phase = "exit" /\ last \in PostFailures) =>
         /\ ret = Returned(FALSE)
         /\ Cardinality(RequestsIn(trace)) = FORM_MAX_RETRIES + 1
         /\ trace[Len(trace)] = Request

C22_Witness ==
  /\ pc = "submit_followers"
  /\ phase = "exit"
  /\ last = "request_error"
  /\ ret = Returned(FALSE)
  /\ trace = <<Request, Wait(2), Request, Wait(4), Request, Wait(8), Request>>

\* the field map of the form the running submission posts to
FieldMapOf(p) ==
  IF p = "submit_followers" THEN FOLLOWERS_FORM_FIELDS ELSE KIT_STATS_FORM_FIELDS

\* C23: the POST body has exactly one entry (field id, value) for each key of
\* the form map that the form's field map holds and none for any other key
\* (such as "X Followers Last 30 Days"); it is computed once and every POST of
\* the call sends that same body.
C23_Body ==
  InSubmitData =>
    LET fields == FieldMapOf(pc)
        mapped == DOMAIN form_data \cap DOMAIN fields
    IN /\ DOMAIN body = {fields[k] : k \in mapped}
       /\ Cardinality(DOMAIN body) = Cardinality(mapped)
       /\ \A k \in mapped : body[fields[k]] = form_data[k]
       /\ pc = "submit_followers" =>
            /\ "X Followers Last 30 Days" \in DOMAIN form_data \ DOMAIN fields
            /\ "X Followers Last 30 Days" \notin DOMAIN body
       /\ Len(sent) = Cardinality(RequestsIn(trace))
       /\ \A i \in DOMAIN sent : sent[i] = body

C23_Witness ==
  /\ pc = "submit_followers"
  /\ phase = "exit"
  /\ Len(sent) = FORM_MAX_RETRIES + 1
  /\ Cardinality(DOMAIN body) = 11
  /\ Cardinality(DOMAIN form_data) = 13

\* C24: building the followers form map and the Kit-stats form map again from
\* the same acquisition results yields the same maps, and building a map
\* leaves the acquisition results as they were.
C24_SameMaps ==
  \A i, j \in DOMAIN maps : maps[i].form = maps[j].form => maps[i].data = maps[j].data

C24_InputsKept == maps' # maps => dataVars' = dataVars

C25_ScrapersRetry ==
  /\ (pc = "profile" /\ phase = "exit" /\ last \in {"signin", "nocount", "exception"})
       => attempt >= 2
  /\ (pc = "company" /\ phase \in {"run", "exit"} /\ last \in {"no_match", "exception"})
       => Cardinality(ScrapesIn(trace)) > Len(results)
  /\ (pc = "newsletter" /\ phase = "exit" /\ last \in {"no_match", "exception"})
       => Cardinality(ScrapesIn(trace)) >= 2

\* an iteration of the while loop of get_followers has run
ProfileAttemptStep == pc = "profile" /\ phase = "run" /\ attempt' = attempt + 1

\* C26: attempt i of get_followers navigates to URL variant (i mod number of
\* variants), so two consecutive attempts never use the same variant.
C26_RoundRobin ==
  [][ProfileAttemptStep =>
        /\ url_to_try' = url_variants[(attempt' % Len(url_variants)) + 1]
        /\ attempt >= 1 => url_to_try' # url_to_try]_vars

C28_SourceOrder ==
  "scrape" \in DOMAIN extracted =>
    LET r == extracted["scrape"]
    IN /\ r.follower_count # None =>
            /\ r.result = [success |-> TRUE, followers |-> r.follower_count]
            /\ ~r.patterns_run
       /\ r.patterns_run => r.follower_count = None
       /\ ~r.result.success =>
            /\ r.follower_count = None
            /\ instagram_page_content_fallback(page_content) = Returned(None)

\* C29: get_followers makes at most 5 attempts; the wait after failed attempt a
\* is 2^a seconds plus a jitter of 1 to 5 seconds; waits occur only between
\* consecutive attempts: at most 4 in a call, and none after the final attempt.
C29_Backoff ==
  (pc = "profile" /\ phase \in {"run", "exit"}) =>
    LET waits == WaitEvents(trace)
    IN /\ attempt <= PROFILE_MAX_ATTEMPTS
       /\ \A a \in DOMAIN waits :
            waits[a].secs >= Pow2(a) + 1 /\ waits[a].secs <= Pow2(a) + 5
       /\ Len(waits) <= PROFILE_MAX_ATTEMPTS - 1
       /\ (phase = "exit" /\ trace # <<>>) => ~IsWait(trace[Len(trace)])

\* C30: get_channel_stats raises to its caller on the final attempt:
\* RateLimitError when that attempt gets HTTP 403 quotaExceeded, APIError when
\* it gets another non-200 status.
C30_RaisesOnFinal ==
  (pc = "youtube" /\ phase = "exit" /\ last \in {"quota", "http_error"}) =>
    /\ retries = max_retries
    /\ ret = Raised(IF last = "quota" THEN "RateLimitError" ELSE "APIError")

\* the first match of a depth-first search in key order that also looks
\* inside an object stored under a follower key without "count"
RECURSIVE FirstMatch(_)
RECURSIVE FirstMatchInItems(_, _)
FirstMatchInItems(obj, i) ==
  IF i > Len(obj.items) THEN JNull
  ELSE LET key == obj.items[i].key
           value == obj.items[i].value
           inside == FirstMatch(value)
       IN IF key \in FollowerKeys /\ isinstance_int(value) THEN value
          ELSE IF key \in FollowerKeys /\ value.tag = "object" /\ HasKey_json(value, "count")
            THEN ValueAt(value, "count")
          ELSE IF inside # JNull THEN inside
          ELSE FirstMatchInItems(obj, i + 1)

RECURSIVE FirstMatchInList(_, _)
FirstMatchInList(obj, i) ==
  IF i > Len(obj.items) THEN JNull
  ELSE LET inside == FirstMatch(obj.items[i])
       IN IF inside # JNull THEN inside ELSE FirstMatchInList(obj, i + 1)

FirstMatch(obj) ==
  CASE obj.tag = "object" -> FirstMatchInItems(obj, 1)
    [] obj.tag = "array" -> FirstMatchInList(obj, 1)
    [] OTHER -> JNull

\* C31: the deep search of an intercepted body returns the first match in
\* depth-first, key-declaration order, where an object under follower_count or
\* edge_followed_by that has no count field is searched inside and does not
\* end the search after it.
C31_DeepSearch ==
  "deep" \in DOMAIN extracted => extracted["deep"] = FirstMatch(response_json)

\* a candidate path followed key by key, None for a missing key or a key into
\* a value that is no object
RECURSIVE SoftResolve(_, _, _)
SoftResolve(v, keys, i) ==
  IF i > Len(keys) THEN v
  ELSE IF v.tag = "object" /\ HasKey_json(v, keys[i])
    THEN SoftResolve(ValueAt(v, keys[i]), keys, i + 1)
  ELSE JNull

Resolving(data) ==
  {c \in DOMAIN possible_keys : SoftResolve(data, possible_keys[c], 1) # JNull}

FirstResolving(data) ==
  IF Resolving(data) = {} THEN JNull
  ELSE SoftResolve(data,
         possible_keys[CHOOSE c \in Resolving(data) : \A d \in Resolving(data) : c <= d], 1)

\* C32: the API lookup uses the value of the first candidate, in declared
\* order, that resolves to a non-null value; a missing key or a key into a
\* non-container on a dotted path moves on to the next candidate, and the call
\* gives a result dict that succeeds exactly for a count.
C32_Candidates ==
  "api" \in DOMAIN extracted =>
    /\ extracted["api"].followers_count = FirstResolving(response_json)
    /\ extracted["api"].result.success
         = isinstance_int(FirstResolving(response_json))

\* a dotted candidate failed on a non-container and a later one gave the value
C32_Witness ==
  /\ "api" \in DOMAIN extracted
  /\ response_json.tag = "object"
  /\ ResolvePath(response_json, possible_keys[4], 1) = Raised("TypeError")
  /\ extracted["api"].followers_count = JScalar(7)
  /\ extracted["api"].followers_count = SoftResolve(response_json, possible_keys[5], 1)

\* C33: run_followers_tracker returns True exactly when the followers-form
\* submission and the Kit-stats submission both returned True, i.e. the last
\* POST of each was taken as a success; it returns a boolean on every path.
C33_ReturnValue ==
  [][/\ (pc = "submit_followers" /\ pc' = "submit_kit")
          => followers_success' = PostSucceeded(last)
     /\ (pc # "done" /\ pc' = "done")
          => submission_success'
               = (pc = "submit_kit" /\ followers_success /\ PostSucceeded(last))]_vars

\* a run that returned True although the Twitter acquisition had failed
C33_Witness ==
  /\ pc = "done"
  /\ submission_success
  /\ twitter_data.followers = NotFound

\* the events a step adds to the trace
AddedEvents == Len(trace) + 1 .. Len(trace')

\* C34: at most one browser session is open at any point of a run: a step that
\* opens a session (a profile attempt, a company, newsletter or Instagram
\* scrape) starts with no browser resource of an earlier session still open.
C34_OneSession ==
  [][(\E i \in AddedEvents : trace'[i] \in {Navigate, Scrape}) => open_resources = {}]_vars

\* C35: no browser session is open while the profile acquirer or the Instagram
\* acquirer sleeps in a retry backoff wait: the session of the failed attempt
\* has been released when the wait begins.
C35_ClosedDuringWait ==
  [][(pc \in {"profile", "instagram"} /\ \E i \in AddedEvents : trace'[i].ev = "wait")
       => open_resources' = {}]_vars

ClosesOf(c) == {i \in DOMAIN session_log : session_log[i].op = "close" /\ session_log[i].context = c}

Created == {i \in DOMAIN session_log : session_log[i].op = "new_context"}

\* C36: in get_followers of the profile acquirer every browser context is
\* closed exactly once and only through the driver that created it, whatever
\* the attempts meet (sign-in wall, no count, success, an exception at any
\* step, driver initialisation included).
C36_ClosedOnceByOwner ==
  \A i \in Created :
    LET c == session_log[i].context
    IN /\ Cardinality(ClosesOf(c)) = 1
       /\ \A j \in ClosesOf(c) : session_log[j].driver = session_log[i].driver

\* C37: an API acquirer reports an integer counter only when the response
\* carried it: a 200 response without followers_count, without subscriberCount
\* or viewCount, or without stats is not reported as the value 0.
C37_NoSilentZero ==
  /\ (pc = "twitter" /\ phase = "exit" /\ last = "ok_no_count" /\ ret.kind = "return")
       => ~IsInteger(ret.value.followers)
  /\ (pc = "youtube" /\ phase = "exit" /\ last = "ok_no_subs" /\ ret.kind = "return")
       => ~IsInteger(ret.value.subscribers)
  /\ (pc = "youtube" /\ phase = "exit" /\ last = "ok_no_views" /\ ret.kind = "return")
       => ~IsInteger(ret.value.views)
  /\ (pc = "kit" /\ last = "ok_no_stats" /\ kit_stats # <<>>)
       => ~IsInteger(kit_stats[Len(kit_stats)].subscribers)

\* a matching response of status 200 whose body parses and carries
\* data.user.follower_count
Carries(response) ==
  /\ response.graphql
  /\ response.status = 200
  /\ \E v \in {JScalar(5), JScalar(7), JNull} :
       response.body = UserBody(JObject(<<JPair("follower_count", v)>>))

Carrying(t) == {i \in DOMAIN t : Carries(t[i])}

\* the follower_count of the last carrying response of t, None without one
LastCarried(t) ==
  IF Carrying(t) = {} THEN JNull
  ELSE LET i == CHOOSE n \in Carrying(t) : \A m \in Carrying(t) : m <= n
       IN ValueAt(ValueAt(ValueAt(t[i].body, "data"), "user"), "follower_count")

\* C38: the intercepted responses are handled in arrival order; the captured
\* value is the follower_count of the last response handled that carries it,
\* a response without the field, of another status or that fails to parse
\* leaves the captured value as it is, and the check reads that value.
C38_LastCarrying ==
  /\ graphql_data = LastCarried(responses)
  /\ "scrape" \in DOMAIN extracted =>
       /\ extracted["scrape"].follower_count = PyValue(LastCarried(responses))
       /\ (extracted["scrape"].result.success /\ LastCarried(responses) # JNull)
            => extracted["scrape"].result.followers = PyValue(LastCarried(responses))

\* two carrying responses with different counts, then one that carries none,
\* after which the check used the count of the second
C38_Witness ==
  /\ "scrape" \in DOMAIN extracted
  /\ Len(responses) = 3
  /\ Carries(responses[1]) /\ Carries(responses[2]) /\ ~Carries(responses[3])
  /\ LastCarried(SubSeq(responses, 1, 1)) = JScalar(5)
  /\ extracted["scrape"].result = [success |-> TRUE, followers |-> 7]

\* C39: run_followers_tracker always terminates: the profile loop makes at
\* most 5 attempts, Twitter at most 2 requests, Instagram at most max_retries
\* scraping rounds, YouTube at most max_retries + 1 requests and a form
\* submission at most max_retries + 1 POSTs, and whatever the external services
\* answer the run eventually posts a form and returns a boolean.
C39_Terminates ==
  /\ [](attempt <= 5)
  /\ [](pc = "twitter" => Cardinality(RequestsIn(trace)) <= 2)
  /\ [](pc = "instagram" => Cardinality(ScrapesIn(trace)) <= instagram_max_retries)
  /\ [](pc = "youtube" => Cardinality(RequestsIn(trace)) <= max_retries + 1)
  /\ [](Len(sent) <= FORM_MAX_RETRIES + 1)
  /\ <>(pc = "done" /\ posted # <<>> /\ submission_success \in BOOLEAN)

\* a run that ended after the Instagram acquirer had used up all its rounds
C39_Witness ==
  /\ pc = "done"
  /\ posted # <<>>
  /\ instagram_data = [followers |-> NotFound, error |-> "All retrieval attempts failed"]

====
